---- MODULE Spec2Model ----
(***************************************************************************)
(* A model of jxl-rs: the streaming container parser                       *)
(* (jxl/src/container/mod.rs), the frame section router (jxl/src/frame.rs) *)
(* and the DCT kernels (jxl_transforms/src/dct.rs, jxl_simd).              *)
(*                                                                         *)
(* Bytes are the naturals 0..255, byte strings are sequences.  Option<T>   *)
(* is a sequence of length at most one: None is <<>>, Some(x) is <<x>>.    *)
(***************************************************************************)
EXTENDS Integers, Sequences, FiniteSets, TLC

VARIABLES
    parser,     \* the ContainerParser under test: state, buf, codestream, aux_boxes, jxlp_index_state
    twin,       \* a second ContainerParser that receives the same feed_bytes/finish calls and no take_bytes
    doc,        \* the byte stream the caller holds: its signature and its boxes
    pos,        \* how many bytes of the stream the caller has fed so far
    taken,      \* the concatenation of what take_bytes has returned so far
    result,     \* what the last feed_bytes call returned ("none" before the first)
    errored,    \* TRUE once a feed_bytes call has returned an error
    late,       \* the number of feed_bytes calls made after an error or after finish
    frame,      \* the Frame whose sections are looked up: the FrameHeader counts
    section,    \* the Section last passed to get_section_idx (Option)
    section_idx, \* what that call returned (Option)
    toc,        \* the Toc of the Frame whose sections are split: entries, permuted, permutation
    br,         \* the BitReader handed to sections, at the end of the TOC
    sections_ret, \* what sections returned and where it left the BitReader (Option)
    decoder_state, \* the DecoderState the decode loop holds between frames (Option)
    decoding,   \* the Frame being decoded, which owns the DecoderState meanwhile (Option)
    given,      \* the DecoderState that was passed to Frame::new for that frame (Option)
    calls,      \* the calls that have returned Ok on that frame, in order
    ret,        \* what the last call of the decode loop returned: "none", "Ok", "Err", "panic"
    finalize_ret, \* the header finalize ran on and what it left and returned (Option)
    num_frames, \* how many frames the decode loop has started
    trace,      \* the last decode call that was followed step by step: the call, what it
                \* read and the steps it ran (Option)
    simd,       \* the SimdDescriptor the transforms run with: "Scalar" or "Sse42"
    shape,      \* <<ROWS, COLS>> of the matrix the transforms work on
    from,       \* the input matrix, row-major
    to,         \* what the last transform call left: whether it panicked, and its output (Option)
    op,         \* the transform calls made so far: "none", "transpose", "transpose_back", ...
    lens        \* the lengths, in floats, of the data and scratch slices given to dct2d and idct2d

parser_vars == <<parser, twin, doc, pos, taken, result, errored, late>>
frame_vars == <<frame, section, section_idx>>
toc_vars == <<toc, br, sections_ret>>
decode_vars == <<decoder_state, decoding, given, calls, ret, finalize_ret, num_frames, trace>>
dct_vars == <<simd, shape, from, to, op, lens>>
rest_vars == <<toc_vars, decode_vars, dct_vars>>
vars == <<parser, twin, doc, pos, taken, result, errored, late, frame, section, section_idx,
          toc, br, sections_ret,
          decoder_state, decoding, given, calls, ret, finalize_ret, num_frames, trace,
          simd, shape, from, to, op, lens>>

None == <<>>
Some(x) == <<x>>

Min(a, b) == IF a < b THEN a ELSE b

(***************************************************************************)
(* Bounds of the model.                                                    *)
(***************************************************************************)
\* The longest list of boxes a stream of the model holds.
MaxBoxes == 2
\* The longest chunk one feed_bytes call is given.
MaxChunk == 5
\* How many feed_bytes calls the caller still makes once a call has returned an
\* error or finish has been called.
MaxLate == 1
\* The most groups and the most passes a frame of the model has.
MaxGroups == 3
MaxPasses == 2
\* The most entries a TOC that is split into sections has.
MaxTocEntries == 5
\* The most frames the decode loop starts, and the most decode calls it makes
\* on one frame before it finalizes it.
MaxFrames == 2
MaxCalls == 2
\* The most rows and the most columns of a matrix that is transformed.
MaxDim == 16
\* The most columns idct_wrapper is called with.
MaxColumns == 18

(***************************************************************************)
(* Integers.  A u32 or u64 read from the stream is kept exactly below      *)
(* 2^31 - 1 and is clamped to 2^31 - 1 at or above it: every stream of     *)
(* the model is far shorter than that, so a byte count of 2^31 - 1 or more *)
(* is never exhausted, clamped or not.                                     *)
(***************************************************************************)
ClampMax == 32767 * 65536 + 65535    \* 2^31 - 1

RECURSIVE from_be_bytes(_)
from_be_bytes(b) ==
    IF b = <<>> THEN 0
    ELSE LET hi == from_be_bytes(SubSeq(b, 1, Len(b) - 1))
             lo == b[Len(b)]
         IN  IF hi > (ClampMax - lo) \div 256 THEN ClampMax ELSE hi * 256 + lo

\* slice::starts_with
starts_with(s, prefix) ==
    /\ Len(prefix) <= Len(s)
    /\ SubSeq(s, 1, Len(prefix)) = prefix

(***************************************************************************)
(* util::ConcatSlice: a cursor over the concatenation of two slices.       *)
(***************************************************************************)
ConcatSlice_new(slice0, slice1) == [slice0 |-> slice0, slice1 |-> slice1, ptr |-> 0]

remaining_slices(reader) ==
    LET len0 == Len(reader.slice0)
        len1 == Len(reader.slice1)
    IN  IF reader.ptr >= len0 + len1 THEN << <<>>, <<>> >>
        ELSE IF reader.ptr >= len0
             THEN << <<>>, SubSeq(reader.slice1, reader.ptr - len0 + 1, len1) >>
             ELSE << SubSeq(reader.slice0, reader.ptr + 1, len0), reader.slice1 >>

advance(reader, bytes) == [reader EXCEPT !.ptr = @ + bytes]

\* The first n elements of s, all of s when it has fewer.
first(s, n) == SubSeq(s, 1, Min(n, Len(s)))

\* The two remaining slices, one after the other.
concat(slices) == slices[1] \o slices[2]

\* peek(out_buf) with an out_buf of n bytes: the slice of out_buf that was filled.
peek(reader, n) == first(concat(remaining_slices(reader)), n)

\* fill_vec, the bytes it may move: all that remain, max_bytes of them at most.
fill_limit(all, max_bytes) == IF max_bytes = None THEN all ELSE first(all, max_bytes[1])

\* fill_vec, moving the bytes out into v.
fill_move(reader, out, v) ==
    [reader |-> advance(reader, Len(out)), v |-> v \o out, written |-> Len(out)]

\* fill_vec(max_bytes, v): moves up to max_bytes bytes into v.
fill_vec(reader, max_bytes, v) ==
    fill_move(reader, fill_limit(concat(remaining_slices(reader)), max_bytes), v)

(***************************************************************************)
(* container::box_header                                                   *)
(***************************************************************************)
CODESTREAM == <<106, 120, 108, 99>>             \* b"jxlc"
PARTIAL_CODESTREAM == <<106, 120, 108, 112>>    \* b"jxlp"

\* ContainerBoxHeader::parse: 4-byte size, 4-byte type, an 8-byte extended size
\* when size = 1; size = 0 is a box that runs to the end of the stream.
\* box_size is the size of what follows the header.
ParseDone(tbox, box_size, header_size) ==
    [tag |-> "Done",
     header |-> [box_type |-> tbox, box_size |-> box_size],
     header_size |-> header_size]

\* The header with an extended size xlbox.
parse_extended(tbox, xlbox) ==
    IF xlbox < 16 THEN [tag |-> "InvalidBox"]
    ELSE ParseDone(tbox, Some(xlbox - 16), 16)

\* The header whose first eight bytes give the size sbox and the type tbox.
parse_sized(b, sbox, tbox) ==
    IF sbox = 1
    THEN IF Len(b) < 16 THEN [tag |-> "NeedMoreData"]
         ELSE parse_extended(tbox, from_be_bytes(SubSeq(b, 9, 16)))
    ELSE IF sbox = 0 THEN ParseDone(tbox, None, 8)
    ELSE IF sbox < 8 THEN [tag |-> "InvalidBox"]
    ELSE ParseDone(tbox, Some(sbox - 8), 8)

\* The header read from the bytes b, the first 16 the reader holds at most.
parse_bytes(b) ==
    IF Len(b) < 8 THEN [tag |-> "NeedMoreData"]
    ELSE parse_sized(b, from_be_bytes(SubSeq(b, 1, 4)), SubSeq(b, 5, 8))

ContainerBoxHeader_parse(reader) == parse_bytes(peek(reader, 16))

(***************************************************************************)
(* container::ContainerParser                                              *)
(***************************************************************************)
CODESTREAM_SIG == <<255, 10>>
CONTAINER_SIG == <<0, 0, 0, 12, 74, 88, 76, 32, 13, 10, 135, 10>>

\* DetectState
WaitingSignature == [tag |-> "WaitingSignature"]
WaitingBoxHeader == [tag |-> "WaitingBoxHeader"]
WaitingJxlpIndex(header) == [tag |-> "WaitingJxlpIndex", header |-> header]
InAuxBox(header, data, bytes_left) ==
    [tag |-> "InAuxBox", header |-> header, data |-> data, bytes_left |-> bytes_left]
InCodestream(kind, bytes_left) ==
    [tag |-> "InCodestream", kind |-> kind, bytes_left |-> bytes_left]
Done(kind) == [tag |-> "Done", kind |-> kind]

\* JxlpIndexState
Initial == [tag |-> "Initial"]
SingleJxlc == [tag |-> "SingleJxlc"]
Jxlp(index) == [tag |-> "Jxlp", index |-> index]
JxlpFinished == [tag |-> "JxlpFinished"]

\* ContainerParser::new
ContainerParser_new ==
    [state |-> WaitingSignature,
     buf |-> <<>>,
     codestream |-> <<>>,
     aux_boxes |-> <<>>,
     jxlp_index_state |-> Initial]

\* kind that does not count a box header being awaited as part of a container.
kind_HeaderUnknown(self) ==
    CASE self.state.tag \in {"WaitingSignature", "WaitingBoxHeader"} -> "Unknown"
      [] self.state.tag \in {"WaitingJxlpIndex", "InAuxBox"} -> "Container"
      [] self.state.tag \in {"InCodestream", "Done"} -> self.state.kind

\* ContainerParser::kind
kind(self) ==
    CASE self.state.tag = "WaitingSignature" -> "Unknown"
      [] self.state.tag \in {"WaitingBoxHeader", "WaitingJxlpIndex", "InAuxBox"} -> "Container"
      [] self.state.tag \in {"InCodestream", "Done"} -> self.state.kind

\* What one turn of the loop of feed_bytes leaves: the parser, the reader and
\* how the turn ends ("continue": next turn; "break": leave the loop;
\* "InvalidBox": return Err(Error::InvalidBox) at once).
Turn(self, reader, ctl) == [self |-> self, reader |-> reader, ctl |-> ctl]

\* WaitingSignatureArm with a signature check that forgets the codestream signature:
\* a prefix of FF 0A that is no prefix of the container signature is Invalid at once.
SignatureTurn_OneSignature(self, reader, b) ==
    IF starts_with(b, CODESTREAM_SIG)
    THEN Turn([self EXCEPT !.state = InCodestream("BareCodestream", None)], reader, "continue")
    ELSE IF starts_with(b, CONTAINER_SIG)
    THEN Turn([self EXCEPT !.state = WaitingBoxHeader],
              advance(reader, Len(CONTAINER_SIG)), "continue")
    ELSE IF ~starts_with(CONTAINER_SIG, b)
    THEN Turn([self EXCEPT !.state = InCodestream("Invalid", None)], reader, "continue")
    ELSE Turn(self, reader, "break")

\* The signature check that consumes the codestream signature as it does the
\* container signature.
SignatureTurn_ConsumesSignature(self, reader, b) ==
    IF starts_with(b, CODESTREAM_SIG)
    THEN Turn([self EXCEPT !.state = InCodestream("BareCodestream", None)],
              advance(reader, Len(CODESTREAM_SIG)), "continue")
    ELSE IF starts_with(b, CONTAINER_SIG)
    THEN Turn([self EXCEPT !.state = WaitingBoxHeader],
              advance(reader, Len(CONTAINER_SIG)), "continue")
    ELSE IF ~starts_with(CODESTREAM_SIG, b) /\ ~starts_with(CONTAINER_SIG, b)
    THEN Turn([self EXCEPT !.state = InCodestream("Invalid", None)], reader, "continue")
    ELSE Turn(self, reader, "break")

\* feed_bytes, the arm DetectState::WaitingSignature, on the bytes b it peeked
SignatureTurn(self, reader, b) ==
    IF starts_with(b, CODESTREAM_SIG)
    THEN Turn([self EXCEPT !.state = InCodestream("BareCodestream", None)], reader, "continue")
    ELSE IF starts_with(b, CONTAINER_SIG)
    THEN Turn([self EXCEPT !.state = WaitingBoxHeader],
              advance(reader, Len(CONTAINER_SIG)), "continue")
    ELSE IF ~starts_with(CODESTREAM_SIG, b) /\ ~starts_with(CONTAINER_SIG, b)
    THEN Turn([self EXCEPT !.state = InCodestream("Invalid", None)], reader, "continue")
    ELSE Turn(self, reader, "break")

\* feed_bytes, the arm DetectState::WaitingSignature
WaitingSignatureArm(self, reader) == SignatureTurn(self, reader, peek(reader, 12))

\* feed_bytes, the arm DetectState::WaitingBoxHeader, a jxlc header
JxlcHeader(self, reader, header) ==
    CASE self.jxlp_index_state.tag = "Initial" ->
            Turn([self EXCEPT !.jxlp_index_state = SingleJxlc,
                              !.state = InCodestream("Container", header.box_size)],
                 reader, "continue")
      [] self.jxlp_index_state.tag = "SingleJxlc" -> Turn(self, reader, "InvalidBox")
      [] self.jxlp_index_state.tag \in {"Jxlp", "JxlpFinished"} -> Turn(self, reader, "InvalidBox")

\* The jxlp header arm that leaves jxlp_index_state at Initial on the first jxlp box.
JxlpHeader_KeepsInitial(self, reader, header) ==
    IF header.box_size # None /\ header.box_size[1] < 4
    THEN Turn(self, reader, "InvalidBox")
    ELSE CASE self.jxlp_index_state.tag = "Initial" ->
                 Turn([self EXCEPT !.state = WaitingJxlpIndex(header)], reader, "continue")
           [] self.jxlp_index_state.tag = "Jxlp" ->
                 Turn([self EXCEPT !.jxlp_index_state = Jxlp(@.index + 1),
                                   !.state = WaitingJxlpIndex(header)],
                      reader, "continue")
           [] self.jxlp_index_state.tag = "SingleJxlc" -> Turn(self, reader, "InvalidBox")
           [] self.jxlp_index_state.tag = "JxlpFinished" -> Turn(self, reader, "InvalidBox")

\* feed_bytes, the arm DetectState::WaitingBoxHeader, a jxlp header
JxlpHeader(self, reader, header) ==
    IF header.box_size # None /\ header.box_size[1] < 4
    THEN Turn(self, reader, "InvalidBox")
    ELSE CASE self.jxlp_index_state.tag = "Initial" ->
                 Turn([self EXCEPT !.jxlp_index_state = Jxlp(0),
                                   !.state = WaitingJxlpIndex(header)],
                      reader, "continue")
           [] self.jxlp_index_state.tag = "Jxlp" ->
                 Turn([self EXCEPT !.jxlp_index_state = Jxlp(@.index + 1),
                                   !.state = WaitingJxlpIndex(header)],
                      reader, "continue")
           [] self.jxlp_index_state.tag = "SingleJxlc" -> Turn(self, reader, "InvalidBox")
           [] self.jxlp_index_state.tag = "JxlpFinished" -> Turn(self, reader, "InvalidBox")

\* feed_bytes, the arm DetectState::WaitingBoxHeader, any other header
AuxHeader(self, reader, header) ==
    Turn([self EXCEPT !.state = InAuxBox(header, <<>>, header.box_size)], reader, "continue")

\* feed_bytes, the arm DetectState::WaitingBoxHeader
HeaderDispatch(self, reader, header) ==
    IF header.box_type = CODESTREAM THEN JxlcHeader(self, reader, header)
    ELSE IF header.box_type = PARTIAL_CODESTREAM THEN JxlpHeader(self, reader, header)
    ELSE AuxHeader(self, reader, header)

\* feed_bytes, the arm DetectState::WaitingBoxHeader, on what parse returned
HeaderTurn(self, reader, parsed) ==
    CASE parsed.tag = "InvalidBox" -> Turn(self, reader, "InvalidBox")
      [] parsed.tag = "NeedMoreData" -> Turn(self, reader, "break")
      [] parsed.tag = "Done" ->
            HeaderDispatch(self, advance(reader, parsed.header_size), parsed.header)

WaitingBoxHeaderArm(self, reader) == HeaderTurn(self, reader, ContainerBoxHeader_parse(reader))

\* The [u8; 4] that feed_bytes hands to peek: zeroes, overwritten by as many
\* bytes as the reader still holds.
zero_filled(got) == got \o [i \in 1..(4 - Len(got)) |-> 0]

PeekIndexBuf(reader) == zero_filled(peek(reader, 4))

\* feed_bytes, the arm DetectState::WaitingJxlpIndex, once the index was read:
\* is_last is index & 0x80000000 != 0, index is index & 0x7fffffff.
JxlpIndexMatch(self, reader, header, is_last, index) ==
    IF self.jxlp_index_state.tag = "Jxlp" /\ self.jxlp_index_state.index = index
    THEN Turn([self EXCEPT
                  !.jxlp_index_state = IF is_last THEN JxlpFinished ELSE @,
                  !.state = InCodestream("Container",
                       IF header.box_size = None THEN None
                       ELSE Some(header.box_size[1] - 4))],
              reader, "continue")
    ELSE IF self.jxlp_index_state.tag = "Jxlp"
    THEN Turn(self, reader, "InvalidBox")
    ELSE Turn(self, reader, "unreachable")

\* feed_bytes, the arm DetectState::WaitingJxlpIndex, on the buffer b it peeked into
JxlpIndexTurn(self, reader, b) ==
    IF Len(b) < 4 THEN Turn(self, reader, "break")
    ELSE JxlpIndexMatch(self, advance(reader, 4), self.state.header,
                        b[1] >= 128, from_be_bytes(<<b[1] % 128, b[2], b[3], b[4]>>))

\* feed_bytes, the arm DetectState::WaitingJxlpIndex.  buf is the array
\* itself, not the slice peek returns, so buf.len() is 4 whatever was read.
WaitingJxlpIndexArm(self, reader) == JxlpIndexTurn(self, reader, PeekIndexBuf(reader))

\* feed_bytes, the two arms DetectState::InCodestream
CodestreamTurn(self, f) ==
    IF self.state.bytes_left = None
    THEN Turn([self EXCEPT !.codestream = f.v], f.reader, "break")
    ELSE IF self.state.bytes_left[1] - f.written = 0
    THEN Turn([self EXCEPT !.codestream = f.v, !.state = WaitingBoxHeader],
              f.reader, "continue")
    ELSE Turn([self EXCEPT !.codestream = f.v,
                           !.state.bytes_left = Some(@[1] - f.written)],
              f.reader, "break")

InCodestreamArm(self, reader) ==
    CodestreamTurn(self, fill_vec(reader, self.state.bytes_left, self.codestream))

\* feed_bytes, the two arms DetectState::InAuxBox
AuxBoxTurn(self, f) ==
    IF self.state.bytes_left = None
    THEN Turn([self EXCEPT !.state.data = f.v], f.reader, "break")
    ELSE IF self.state.bytes_left[1] - f.written = 0
    THEN Turn([self EXCEPT
                  !.aux_boxes = Append(@, <<self.state.header.box_type, f.v>>),
                  !.state = WaitingBoxHeader],
              f.reader, "continue")
    ELSE Turn([self EXCEPT !.state.data = f.v,
                           !.state.bytes_left = Some(@[1] - f.written)],
              f.reader, "break")

InAuxBoxArm(self, reader) ==
    AuxBoxTurn(self, fill_vec(reader, self.state.bytes_left, self.state.data))

\* feed_bytes, the loop
\* feed_bytes, the match on self.state: one turn of the loop
match_state(self, reader) ==
    CASE self.state.tag = "WaitingSignature" -> WaitingSignatureArm(self, reader)
      [] self.state.tag = "WaitingBoxHeader" -> WaitingBoxHeaderArm(self, reader)
      [] self.state.tag = "WaitingJxlpIndex" -> WaitingJxlpIndexArm(self, reader)
      [] self.state.tag = "InCodestream" -> InCodestreamArm(self, reader)
      [] self.state.tag = "InAuxBox" -> InAuxBoxArm(self, reader)
      [] self.state.tag = "Done" -> Turn(self, reader, "break")

\* feed_bytes, the loop: turns t until one breaks or returns
RECURSIVE feed_loop(_)
feed_loop(t) ==
    IF t.ctl = "continue" THEN feed_loop(match_state(t.self, t.reader)) ELSE t

\* feed_bytes, after the loop: of buf, the tail the reader has not consumed stays
retain(buf, buf_slice, input_slice) ==
    (IF buf_slice = <<>> THEN <<>>
     ELSE SubSeq(buf, Len(buf) - Len(buf_slice) + 1, Len(buf))) \o input_slice

RetainSlices(self, slices) == [self EXCEPT !.buf = retain(@, slices[1], slices[2])]

\* feed_bytes, after the loop: the bytes the reader has not consumed stay in buf
RetainBuffer(self, reader) == RetainSlices(self, remaining_slices(reader))

\* feed_bytes, leaving: Ok after a break, the error otherwise
feed_return(t) ==
    IF t.ctl = "break"
    THEN [self |-> RetainBuffer(t.self, t.reader), result |-> "Ok"]
    ELSE [self |-> t.self, result |-> t.ctl]

\* ContainerParser::feed_bytes: the parser after the call and what the call returned
feed_bytes(self, input) ==
    feed_return(feed_loop(Turn(self, ConcatSlice_new(self.buf, input), "continue")))

\* take_bytes that copies the codestream and leaves it in place.
take_bytes_Copy(self) ==
    [self |-> self, bytes |-> self.codestream]

\* ContainerParser::take_bytes: the parser after the call and the bytes returned
take_bytes(self) ==
    [self |-> [self EXCEPT !.codestream = <<>>], bytes |-> self.codestream]

\* finish that drops the auxiliary box in flight.
finish_NoFlush(self) == [self EXCEPT !.state = Done(kind(self))]

\* ContainerParser::finish
finish(self) ==
    LET flushed == IF self.state.tag = "InAuxBox"
                   THEN [self EXCEPT
                            !.aux_boxes = Append(@, <<self.state.header.box_type, self.state.data>>),
                            !.state.data = <<>>]
                   ELSE self
    IN  [flushed EXCEPT !.state = Done(kind(flushed))]

(***************************************************************************)
(* frame::Frame: the section index.  A frame is the counts its header      *)
(* gives: num_groups, num_lf_groups and the number of passes.              *)
(***************************************************************************)
\* enum Section
LfGlobal == [tag |-> "LfGlobal"]
Lf(group) == [tag |-> "Lf", group |-> group]
HfGlobal == [tag |-> "HfGlobal"]
Hf(group, pass) == [tag |-> "Hf", group |-> group, pass |-> pass]

\* FrameHeader::num_toc_entries: one entry for a frame of one group and one pass,
\* otherwise one per section.
num_toc_entries(header) ==
    IF header.num_groups = 1 /\ header.num_passes = 1
    THEN 1
    ELSE 2 + header.num_lf_groups + header.num_groups * header.num_passes

\* get_section_idx without the case of a TOC of one entry.
get_section_idx_NoSingleEntry(header, s) ==
    CASE s.tag = "LfGlobal" -> 0
      [] s.tag = "Lf" -> 1 + s.group
      [] s.tag = "HfGlobal" -> header.num_lf_groups + 1
      [] s.tag = "Hf" -> 2 + header.num_lf_groups + header.num_groups * s.pass + s.group

\* get_section_idx that takes the stride of the passes from num_lf_groups.
get_section_idx_LfStride(header, s) ==
    IF num_toc_entries(header) = 1 THEN 0
    ELSE CASE s.tag = "LfGlobal" -> 0
           [] s.tag = "Lf" -> 1 + s.group
           [] s.tag = "HfGlobal" -> header.num_lf_groups + 1
           [] s.tag = "Hf" -> 2 + header.num_lf_groups + header.num_lf_groups * s.pass + s.group

\* Frame::get_section_idx
get_section_idx(header, s) ==
    IF num_toc_entries(header) = 1 THEN 0
    ELSE CASE s.tag = "LfGlobal" -> 0
           [] s.tag = "Lf" -> 1 + s.group
           [] s.tag = "HfGlobal" -> header.num_lf_groups + 1
           [] s.tag = "Hf" -> 2 + header.num_lf_groups + header.num_groups * s.pass + s.group

(***************************************************************************)
(* The streams the caller feeds.  A stream is a head (a signature, whole,  *)
(* cut short or wrong, and what follows a signature that is no container)  *)
(* and, after the container signature, a list of boxes.  A box is its type,*)
(* the form of its header (a 32-bit size, size 0 = to the end of the       *)
(* stream, or size 1 and a 64-bit size) and its body; the body of a jxlp   *)
(* box starts with the 4-byte index.                                       *)
(***************************************************************************)
be32(n) == <<(n \div 16777216) % 256, (n \div 65536) % 256, (n \div 256) % 256, n % 256>>

BoxHeaderBytes(form, type, len) ==
    CASE form = "sized" -> be32(8 + len) \o type
      [] form = "eof" -> be32(0) \o type
      [] form = "ext" -> be32(1) \o type \o be32(0) \o be32(16 + len)

EncodeBox(box) == BoxHeaderBytes(box.form, box.type, Len(box.body)) \o box.body

RECURSIVE EncodeBoxes(_)
EncodeBoxes(boxes) ==
    IF boxes = <<>> THEN <<>> ELSE EncodeBox(Head(boxes)) \o EncodeBoxes(Tail(boxes))

\* The 4-byte jxlp index: bit 31 is the final flag, bits 0..30 the sequence number.
JxlpIndexBytes(n, last) == LET b == be32(n) IN <<b[1] + (IF last THEN 128 ELSE 0), b[2], b[3], b[4]>>

EXIF == <<69, 120, 105, 102>>    \* b"Exif", an auxiliary box type

Box(type, form, body) == [type |-> type, form |-> form, body |-> body]

JxlcBoxes ==
    { Box(CODESTREAM, "ext", <<193, 194>>),
      Box(CODESTREAM, "eof", <<195>>) }

\* jxlp boxes: the payload names the index it came with.
JxlpBoxes ==
    { Box(PARTIAL_CODESTREAM, "sized", JxlpIndexBytes(0, FALSE) \o <<160>>),
      Box(PARTIAL_CODESTREAM, "sized", JxlpIndexBytes(0, TRUE) \o <<176>>),
      Box(PARTIAL_CODESTREAM, "sized", JxlpIndexBytes(1, TRUE) \o <<177>>),
      Box(PARTIAL_CODESTREAM, "sized", <<0, 0>>) }      \* declared smaller than 4

AuxBoxes ==
    { Box(EXIF, "sized", <<225>>),
      Box(EXIF, "eof", <<226>>) }

Boxes == JxlcBoxes \cup JxlpBoxes \cup AuxBoxes

\* A box that ends the list it is in: it runs to the end of the stream, or it is
\* the jxlp box declared smaller than 4.
EndsList(box) == box.form = "eof" \/ (box.type = PARTIAL_CODESTREAM /\ Len(box.body) < 4)

\* Lists of at most MaxBoxes boxes.
BoxLists ==
    { l \in UNION { [1..k -> Boxes] : k \in 0..MaxBoxes } :
        \A i \in 1..(Len(l) - 1) : ~EndsList(l[i]) }

\* Heads that are no container signature: a bare codestream, wrong signatures, cut signatures.
OtherHeads ==
    { <<255, 10, 17, 34>>,
      <<255, 11, 51>>,
      <<7>>,
      <<255>>,
      <<0, 0, 0, 12, 74, 88, 76, 32, 13, 10, 135>>,
      <<0, 0, 0, 12, 74, 88, 76, 32, 13, 10, 135, 11, 68>> }

\* A stream: its head, its boxes and its bytes.
Doc(head, boxes) == [head |-> head, boxes |-> boxes, bytes |-> head \o EncodeBoxes(boxes)]

Docs ==
    { Doc(CONTAINER_SIG, l) : l \in BoxLists }
    \cup { Doc(h, <<>>) : h \in OtherHeads }

(***************************************************************************)
(* The caller of the container parser.                                     *)
(***************************************************************************)
InitParser ==
    /\ parser = ContainerParser_new
    /\ twin = ContainerParser_new
    /\ pos = 0
    /\ taken = <<>>
    /\ result = "none"
    /\ errored = FALSE
    /\ late = 0

\* The stream has ended for the parser: a call has failed, or finish was called.
Ended == errored \/ parser.state.tag = "Done"

\* The caller keeps what a feed_bytes call left: the parser and the result.
Keep(r) ==
    /\ parser' = r.self
    /\ result' = r.result
    /\ errored' = (errored \/ r.result # "Ok")

\* The caller feeds the next n bytes of its stream.
FeedBytes ==
    /\ result # "unreachable"
    /\ Ended => late < MaxLate
    /\ \E n \in 1..Min(MaxChunk, Len(doc.bytes) - pos) :
          /\ Keep(feed_bytes(parser, SubSeq(doc.bytes, pos + 1, pos + n)))
          /\ twin' = feed_bytes(twin, SubSeq(doc.bytes, pos + 1, pos + n)).self
          /\ pos' = pos + n
    /\ late' = IF Ended THEN late + 1 ELSE late
    /\ UNCHANGED <<doc, taken>>
    /\ UNCHANGED frame_vars
    /\ UNCHANGED rest_vars

\* The caller drains the codestream.
TakeBytes ==
    /\ result # "unreachable"
    /\ parser' = take_bytes(parser).self
    /\ taken' = taken \o take_bytes(parser).bytes
    /\ UNCHANGED <<twin, doc, pos, result, errored, late>>
    /\ UNCHANGED frame_vars
    /\ UNCHANGED rest_vars

\* The caller ends the stream.
Finish ==
    /\ result # "unreachable"
    /\ parser' = finish(parser)
    /\ twin' = finish(twin)
    /\ UNCHANGED <<doc, pos, taken, result, errored, late>>
    /\ UNCHANGED frame_vars
    /\ UNCHANGED rest_vars

IdleFrame ==
    /\ frame = [num_groups |-> 1, num_lf_groups |-> 1, num_passes |-> 1]
    /\ section = None
    /\ section_idx = None

IdleToc ==
    /\ toc = [entries |-> <<0>>, permuted |-> FALSE, permutation |-> <<>>]
    /\ br = [pos |-> 0, end |-> 0]
    /\ sections_ret = None

IdleDecode ==
    /\ decoder_state = None
    /\ decoding = None
    /\ given = None
    /\ calls = <<>>
    /\ ret = "none"
    /\ finalize_ret = None
    /\ num_frames = 0
    /\ trace = None

IdleDct ==
    /\ simd = "Scalar"
    /\ shape = <<1, 1>>
    /\ from = <<0>>
    /\ to = None
    /\ op = "none"
    /\ lens = [data |-> 1, scratch |-> 0]

IdleRest == IdleToc /\ IdleDecode /\ IdleDct

Init ==
    /\ doc \in Docs
    /\ InitParser
    /\ IdleFrame
    /\ IdleRest

Next ==
    \/ FeedBytes
    \/ TakeBytes
    \/ Finish

Spec == Init /\ [][Next]_vars

(***************************************************************************)
(* What the stream holds, read off its boxes.                              *)
(***************************************************************************)
IsJxlc(box) == box.type = CODESTREAM
IsJxlp(box) == box.type = PARTIAL_CODESTREAM
IsShortJxlp(box) == IsJxlp(box) /\ Len(box.body) < 4
BoxIndex(box) == from_be_bytes(<<box.body[1] % 128, box.body[2], box.body[3], box.body[4]>>)
BoxIsLast(box) == box.body[1] >= 128
Payload(box) == IF IsJxlp(box) THEN SubSeq(box.body, 5, Len(box.body)) ELSE box.body

JxlcOf(boxes) == SelectSeq(boxes, IsJxlc)
JxlpOf(boxes) == SelectSeq(boxes, IsJxlp)

\* The codestream a list of boxes carries: the payloads of its jxlc and jxlp boxes, in order.
RECURSIVE CodestreamOf(_)
CodestreamOf(boxes) ==
    IF boxes = <<>> THEN <<>>
    ELSE (IF IsJxlc(Head(boxes)) \/ IsJxlp(Head(boxes)) THEN Payload(Head(boxes)) ELSE <<>>)
         \o CodestreamOf(Tail(boxes))

\* The jxlp boxes carry the indices 0, 1, 2, ... in order.
JxlpInOrder(boxes) ==
    LET j == JxlpOf(boxes)
    IN  \A i \in 1..Len(j) : ~IsShortJxlp(j[i]) /\ BoxIndex(j[i]) = i - 1

\* At most one jxlp box bears the final flag, and it is the last jxlp box.
FinalIsLast(boxes) ==
    LET j == JxlpOf(boxes)
    IN  \A i \in 1..Len(j) : (~IsShortJxlp(j[i]) /\ BoxIsLast(j[i])) => i = Len(j)

\* The codestream boxes are one jxlc box, or jxlp boxes and no jxlc box.
OneCarrier(boxes) ==
    \/ Len(JxlcOf(boxes)) = 1 /\ JxlpOf(boxes) = <<>>
    \/ JxlcOf(boxes) = <<>>

\* A valid container: one jxlc box, or a jxlp series 0, 1, ... that ends with the final flag.
ValidBoxes(boxes) ==
    LET j == JxlpOf(boxes)
    IN  /\ OneCarrier(boxes)
        /\ JxlcOf(boxes) = <<>> => (j # <<>> /\ BoxIsLast(j[Len(j)]))
        /\ JxlpInOrder(boxes)
        /\ FinalIsLast(boxes)

ValidDoc(d) ==
    \/ d.head = CONTAINER_SIG /\ ValidBoxes(d.boxes)
    \/ starts_with(d.head, CODESTREAM_SIG)

\* The bytes fed so far, and the caller has fed its whole stream and not ended it.
Fed == SubSeq(doc.bytes, 1, pos)
AllFed == pos = Len(doc.bytes) /\ parser.state.tag # "Done"

\* One feed_bytes call on a new parser with everything that was fed so far.
Whole == feed_bytes(ContainerParser_new, Fed)

\* Everything the parser has extracted: what was taken and what it still holds.
Extracted == taken \o parser.codestream

(***************************************************************************)
(* C1: for every valid stream and every cut of it into chunks, feeding the *)
(* chunks one by one gives the same codestream, the same kind() and the    *)
(* same Ok/Err outcome as one feed_bytes call with the whole stream.       *)
(***************************************************************************)
C1_ChunkingEquivalence ==
    (ValidDoc(doc) /\ AllFed) =>
        /\ Extracted = Whole.self.codestream
        /\ kind(parser) = kind(Whole.self)
        /\ errored = (Whole.result # "Ok")

(***************************************************************************)
(* C2: for every valid container that carries its codestream in jxlp       *)
(* boxes, the extracted codestream is the payloads of the jxlp boxes       *)
(* without their indices, in box order, and is what one jxlc box with the  *)
(* same codestream gives.                                                  *)
(***************************************************************************)
AsSingleJxlc(boxes) == Doc(CONTAINER_SIG, <<Box(CODESTREAM, "sized", CodestreamOf(boxes))>>)

C2_JxlpConcatenation ==
    (doc.head = CONTAINER_SIG /\ ValidBoxes(doc.boxes) /\ JxlpOf(doc.boxes) # <<>> /\ AllFed) =>
        /\ Extracted = CodestreamOf(doc.boxes)
        /\ Extracted = feed_bytes(ContainerParser_new, AsSingleJxlc(doc.boxes).bytes).self.codestream

(***************************************************************************)
(* C3: jxlp boxes are accepted only with the indices 0, 1, 2, ... in       *)
(* order: a stream whose n-th jxlp box has another index gets InvalidBox,  *)
(* and an index with bit 31 set and the expected value leaves              *)
(* jxlp_index_state at JxlpFinished.                                       *)
(***************************************************************************)
C3_JxlpOrder ==
    (doc.head = CONTAINER_SIG /\ JxlcOf(doc.boxes) = <<>> /\ JxlpOf(doc.boxes) # <<>> /\ AllFed) =>
        /\ ~JxlpInOrder(doc.boxes) => errored
        /\ (JxlpInOrder(doc.boxes) /\ FinalIsLast(doc.boxes)
              /\ BoxIsLast(JxlpOf(doc.boxes)[Len(JxlpOf(doc.boxes))]))
           => parser.jxlp_index_state = JxlpFinished

(***************************************************************************)
(* C4: a second jxlc box, a jxlc box after a jxlp box, a jxlp box after a  *)
(* jxlc box, a jxlp box after the final one and a jxlp box declared        *)
(* smaller than 4 get InvalidBox, so a container that was accepted has one *)
(* jxlc box or a jxlp series with at most one final box, the last.         *)
(***************************************************************************)
C4_AcceptedIsWellFormed ==
    (doc.head = CONTAINER_SIG /\ AllFed /\ ~errored) =>
        /\ OneCarrier(doc.boxes)
        /\ FinalIsLast(doc.boxes)
        /\ \A i \in 1..Len(doc.boxes) : ~IsShortJxlp(doc.boxes[i])

(***************************************************************************)
(* C5: after feeding a prefix p to a new parser, in any chunks, kind() is  *)
(* BareCodestream iff p starts with FF 0A, Container iff p starts with the *)
(* container signature, Unknown iff p is a proper prefix of one of the two *)
(* signatures, and Invalid otherwise.                                      *)
(***************************************************************************)
ProperPrefix(p, sig) == Len(p) < Len(sig) /\ SubSeq(sig, 1, Len(p)) = p

KindOfPrefix(p) ==
    IF starts_with(p, <<255, 10>>) THEN "BareCodestream"
    ELSE IF starts_with(p, <<0, 0, 0, 12, 74, 88, 76, 32, 13, 10, 135, 10>>) THEN "Container"
    ELSE IF ProperPrefix(p, <<255, 10>>)
            \/ ProperPrefix(p, <<0, 0, 0, 12, 74, 88, 76, 32, 13, 10, 135, 10>>) THEN "Unknown"
    ELSE "Invalid"

C5_KindOfPrefix == parser.state.tag # "Done" => kind(parser) = KindOfPrefix(Fed)

\* The 13-byte head whose 12th byte is wrong has been fed, in three chunks or more.
C5_Witness == kind(parser) = "Invalid" /\ pos = 13 /\ parser.state.tag # "Done"

(***************************************************************************)
(* C6: once a feed_bytes call has returned an error, no later feed_bytes   *)
(* call returns Ok or appends to the codestream or to the auxiliary boxes. *)
(***************************************************************************)
C6_ErrorIsFatal ==
    [][(errored /\ pos' # pos) =>
          /\ result' # "Ok"
          /\ parser'.codestream = parser.codestream
          /\ parser'.aux_boxes = parser.aux_boxes]_vars

(***************************************************************************)
(* C7: finish() moves the parser to Done(k), k the kind() before the call, *)
(* appends an auxiliary box in flight, with the bytes it has, to the       *)
(* auxiliary boxes once, leaves the codestream as it is, and a second      *)
(* finish() changes nothing.                                               *)
(***************************************************************************)
C7_Finish ==
    [][Finish =>
          /\ parser'.state = Done(kind(parser))
          /\ kind(parser') = kind(parser)
          /\ parser'.codestream = parser.codestream
          /\ parser'.buf = parser.buf
          /\ parser'.jxlp_index_state = parser.jxlp_index_state
          /\ parser'.aux_boxes =
                IF parser.state.tag = "InAuxBox"
                THEN Append(parser.aux_boxes, <<parser.state.header.box_type, parser.state.data>>)
                ELSE parser.aux_boxes
          /\ parser.state.tag = "Done" => parser' = parser]_vars

\* finish() was called inside the auxiliary box that runs to the end of the stream.
C7_Witness ==
    /\ parser.state.tag = "Done"
    /\ \E i \in 1..Len(parser.aux_boxes) : parser.aux_boxes[i] = <<EXIF, <<226>>>>

(***************************************************************************)
(* C8: take_bytes returns the codestream bytes accumulated since the last  *)
(* take_bytes and changes nothing else: whatever the interleaving of       *)
(* feed_bytes and take_bytes, what was taken followed by what is left is   *)
(* the codestream of a parser that got the same feeds and no take_bytes,   *)
(* and the two parsers agree on everything else.                           *)
(***************************************************************************)
C8_TakeBytes ==
    /\ taken \o parser.codestream = twin.codestream
    /\ [parser EXCEPT !.codestream = <<>>] = [twin EXCEPT !.codestream = <<>>]

\* Bytes were taken, then more were accumulated, and the stream is fed whole.
C8_Witness == taken # <<>> /\ parser.codestream # <<>> /\ AllFed /\ ~errored

(***************************************************************************)
(* The caller of Frame::get_section_idx.                                   *)
(***************************************************************************)
\* The frame headers of the model: an LF group covers 8 x 8 groups, so there are
\* no more LF groups than groups.
FrameHeaders ==
    { [num_groups |-> g, num_lf_groups |-> l, num_passes |-> p] :
        g \in 1..MaxGroups, l \in 1..MaxGroups, p \in 1..MaxPasses }

\* Every Section value with a group and a pass of the model, in the frame or not.
Sections ==
    {LfGlobal, HfGlobal}
    \cup { Lf(g) : g \in 0..(MaxGroups - 1) }
    \cup { Hf(g, p) : g \in 0..(MaxGroups - 1), p \in 0..(MaxPasses - 1) }

\* The sections of a frame.
SectionsOf(header) ==
    {LfGlobal, HfGlobal}
    \cup { Lf(g) : g \in 0..(header.num_lf_groups - 1) }
    \cup { Hf(g, p) : g \in 0..(header.num_groups - 1), p \in 0..(header.num_passes - 1) }

IdleParser ==
    /\ doc = Doc(CONTAINER_SIG, <<>>)
    /\ InitParser

InitFrame ==
    /\ frame \in { h \in FrameHeaders : h.num_lf_groups <= h.num_groups }
    /\ section = None
    /\ section_idx = None
    /\ IdleParser
    /\ IdleRest

GetSectionIdx ==
    /\ \E s \in Sections :
          /\ section' = Some(s)
          /\ section_idx' = Some(get_section_idx(frame, s))
    /\ UNCHANGED frame
    /\ UNCHANGED parser_vars
    /\ UNCHANGED rest_vars

FrameNext == GetSectionIdx

FrameSpec == InitFrame /\ [][FrameNext]_vars

(***************************************************************************)
(* C9: get_section_idx returns 0 for every section when the TOC has one    *)
(* entry; otherwise LfGlobal is 0, Lf{g} is 1 + g, HfGlobal is             *)
(* 1 + num_lf_groups and Hf{g, p} is 2 + num_lf_groups + p * num_groups + g.*)
(***************************************************************************)
C9_SectionIndex ==
    section # None =>
        LET s == section[1]
            i == section_idx[1]
        IN  /\ num_toc_entries(frame) = 1 => i = 0
            /\ num_toc_entries(frame) # 1 =>
                  /\ s.tag = "LfGlobal" => i = 0
                  /\ s.tag = "Lf" => i = 1 + s.group
                  /\ s.tag = "HfGlobal" => i = 1 + frame.num_lf_groups
                  /\ s.tag = "Hf" => i = 2 + frame.num_lf_groups + s.pass * frame.num_groups + s.group

\* The last section of the second pass of a frame of several groups was looked up.
C9_Witness ==
    /\ section = Some(Hf(frame.num_groups - 1, 1))
    /\ frame.num_groups > 1
    /\ frame.num_lf_groups < frame.num_groups
    /\ frame.num_passes > 1

(***************************************************************************)
(* C10: when the TOC has more than one entry, get_section_idx maps the     *)
(* sections of the frame one-to-one onto 0 .. num_toc_entries - 1.         *)
(***************************************************************************)
C10_SectionIndexBijection ==
    num_toc_entries(frame) > 1 =>
        /\ \A s1, s2 \in SectionsOf(frame) :
              get_section_idx(frame, s1) = get_section_idx(frame, s2) => s1 = s2
        /\ { get_section_idx(frame, s) : s \in SectionsOf(frame) } = 0..(num_toc_entries(frame) - 1)

\* The section with the last index of a frame of several groups and passes was looked up.
C10_Witness ==
    /\ num_toc_entries(frame) > 1
    /\ frame.num_lf_groups < frame.num_groups
    /\ frame.num_passes > 1
    /\ section # None
    /\ section[1] \in SectionsOf(frame)
    /\ section_idx = Some(num_toc_entries(frame) - 1)

(***************************************************************************)
(* frame::Frame: splitting the reader into sections.  A BitReader at a     *)
(* byte boundary is the window pos..end of the codestream, in bytes.       *)
(***************************************************************************)
\* BitReader::split_at: a sub-reader over the next n bytes, which the parent skips.
split_at(reader, n) ==
    IF reader.end - reader.pos < n
    THEN [tag |-> "OutOfBounds", br |-> reader]
    ELSE [tag |-> "Ok",
          sub |-> [pos |-> reader.pos, end |-> reader.pos + n],
          br |-> [reader EXCEPT !.pos = @ + n]]

RECURSIVE SumSeq(_)
SumSeq(q) == IF q = <<>> THEN 0 ELSE Head(q) + SumSeq(Tail(q))

\* Frame::total_bytes_in_toc
total_bytes_in_toc(t) == SumSeq(t.entries)

\* Frame::sections, the byte counts it iterates: the entries, or the entries
\* looked up through the permutation (whose values count from 0).
section_counts(t) ==
    IF t.permuted
    THEN [i \in 1..Len(t.permutation) |-> t.entries[t.permutation[i] + 1]]
    ELSE t.entries

\* Frame::sections, one step of the scan on what split_at returned.
RECURSIVE scan(_, _, _)
scan_step(s, counts, acc) ==
    IF s.tag = "Ok"
    THEN scan(s.br, Tail(counts), Append(acc, s.sub))
    ELSE [tag |-> s.tag, readers |-> <<>>, br |-> s.br]

\* Frame::sections, scan(br, split_at) collected into a Result<Vec>.
scan(reader, counts, acc) ==
    IF counts = <<>> THEN [tag |-> "Ok", readers |-> acc, br |-> reader]
    ELSE scan_step(split_at(reader, Head(counts)), counts, acc)

\* sections that iterates the entries whether the TOC is permuted or not.
sections_Unpermuted(t, reader) == scan(reader, t.entries, <<>>)

\* Frame::sections
sections(t, reader) == scan(reader, section_counts(t), <<>>)

\* The byte lengths a TOC entry of the model has.
EntryBytes == {1, 2}

\* Permutation: the one-to-one maps of 0..n-1, as the sequence of their values.
PermutationsOf(n) ==
    { p \in [1..n -> 0..(n - 1)] : \A i, j \in 1..n : p[i] = p[j] => i = j }

\* Toc::read_unconditional with num_entries = n: every TOC of n entries.
Tocs(n) ==
    { [entries |-> e, permuted |-> FALSE, permutation |-> <<>>] : e \in [1..n -> EntryBytes] }
    \cup { [entries |-> e, permuted |-> TRUE, permutation |-> p] :
              e \in [1..n -> EntryBytes], p \in PermutationsOf(n) }

TocFrames ==
    { h \in FrameHeaders : h.num_lf_groups <= h.num_groups /\ num_toc_entries(h) <= MaxTocEntries }

\* Frame::new has read the header and the TOC; the reader holds all the bytes
\* of the sections or lacks the last one.
InitToc ==
    /\ frame \in TocFrames
    /\ section = None
    /\ section_idx = None
    /\ toc \in Tocs(num_toc_entries(frame))
    /\ \E start \in {0, 1}, short \in {0, 1} :
          br = [pos |-> start, end |-> start + total_bytes_in_toc(toc) - short]
    /\ sections_ret = None
    /\ IdleParser
    /\ IdleDecode
    /\ IdleDct

\* The caller splits the reader into the sections of the frame.
SplitSections ==
    /\ sections_ret = None
    /\ sections_ret' = Some(sections(toc, br))
    /\ UNCHANGED <<toc, br>>
    /\ UNCHANGED frame_vars
    /\ UNCHANGED parser_vars
    /\ UNCHANGED decode_vars
    /\ UNCHANGED dct_vars

TocNext == SplitSections

TocSpec == InitToc /\ [][TocNext]_vars

Readers == sections_ret[1].readers
Split == sections_ret # None /\ sections_ret[1].tag = "Ok"
ReaderLen(i) == Readers[i].end - Readers[i].pos

(***************************************************************************)
(* C11: sections returns one sub-reader per TOC entry; reader i begins     *)
(* where reader i-1 ends (the first at the parent's position), is as long  *)
(* as the entry iterated at position i (entries[i], or                     *)
(* entries[permutation[i]] when the TOC is permuted), and the lengths sum  *)
(* to total_bytes_in_toc, which the parent has skipped.                    *)
(***************************************************************************)
C11_Sections ==
    Split =>
        /\ Len(Readers) = Len(toc.entries)
        /\ \A i \in 1..Len(Readers) :
              /\ Readers[i].pos = IF i = 1 THEN br.pos ELSE Readers[i - 1].end
              /\ ReaderLen(i) = IF toc.permuted THEN toc.entries[toc.permutation[i] + 1]
                                                ELSE toc.entries[i]
        /\ SumSeq([i \in 1..Len(Readers) |-> ReaderLen(i)]) = total_bytes_in_toc(toc)
        /\ sections_ret[1].br.pos = br.pos + total_bytes_in_toc(toc)

\* A permuted TOC whose permutation moves the first section and whose entries
\* differ was split.
C11_Witness ==
    /\ Split
    /\ toc.permuted
    /\ toc.permutation[1] # 0
    /\ toc.entries[1] # toc.entries[toc.permutation[1] + 1]
    /\ Len(Readers) = MaxTocEntries

\* Where logical section k (from 0) is stored: it is chunk permutation[k] of
\* the stored chunks, which follow one another with the lengths of entries.
StoredChunk(k) == IF toc.permuted THEN toc.permutation[k + 1] ELSE k
StoredRange(k) ==
    [pos |-> br.pos + SumSeq(SubSeq(toc.entries, 1, StoredChunk(k))),
     end |-> br.pos + SumSeq(SubSeq(toc.entries, 1, StoredChunk(k) + 1))]

(***************************************************************************)
(* C12: the sub-reader sections()[get_section_idx(s)] covers the stored    *)
(* bytes of logical section s, which is located by permutation[k] when     *)
(* the TOC is permuted, for every section s of the frame.                  *)
(***************************************************************************)
C12_PermutedSectionBytes ==
    Split =>
        \A s \in SectionsOf(frame) :
            Readers[get_section_idx(frame, s) + 1] = StoredRange(get_section_idx(frame, s))

(***************************************************************************)
(* frame::Frame: the decode calls and finalize.  What a call reads from    *)
(* the bit reader is its input io: "ok" (every read succeeds), "err" (a    *)
(* read fails and the call returns the error) and, for decode_hf_global,   *)
(* "custom_quant" (the quant matrix flag reads 0).  A call returns "Ok" or *)
(* "Err", or panics (assert!, unwrap on None, todo!).                      *)
(***************************************************************************)
MAX_STORED_FRAMES == 4

\* DecoderState::new, for a file header with extra extra channels
DecoderState_new(extra) ==
    [extra_channel_info |-> extra,
     reference_frames |-> [i \in 1..MAX_STORED_FRAMES |-> None]]

\* ReferenceFrame::blank
ReferenceFrame_blank(num_channels, saved_before_color_transform) ==
    [frame |-> num_channels, saved_before_color_transform |-> saved_before_color_transform]

\* What a method of Frame leaves: the frame and what the call returned.
Outcome(self, r) == [self |-> self, ret |-> r]

\* Frame::new
Frame_new(header, state) ==
    [header |-> header,
     lf_global |-> None,
     hf_global |-> None,
     lf_image |-> IF header.encoding = "VarDCT" /\ ~header.has_lf_frame THEN Some("Image") ELSE None,
     hf_meta |-> IF header.encoding = "VarDCT" THEN Some("HfMetadata") ELSE None,
     decoder_state |-> state]

(***************************************************************************)
(* u32 arithmetic.  A u32 is its four bytes, least significant first, so   *)
(* that products beyond 2^32 can be told from their wrapped value.         *)
(***************************************************************************)
\* The u32 of a number below 2^31.
u32(n) == <<n % 256, (n \div 256) % 256, (n \div 65536) % 256, (n \div 16777216) % 256>>

\* Byte i, from 1, of a number given by its bytes; 0 beyond its length.
Byte(a, i) == IF i \in 1..Len(a) THEN a[i] ELSE 0

\* The sum of the byte products a[i] * b[j] with i + j = k + 1: column k of
\* the long multiplication.
RECURSIVE Column(_, _, _, _)
Column(a, b, k, i) ==
    IF i > k THEN 0 ELSE Byte(a, i) * Byte(b, k + 1 - i) + Column(a, b, k, i + 1)

\* The carry into column k of the long multiplication.
RECURSIVE Carry(_, _, _)
Carry(a, b, k) ==
    IF k = 1 THEN 0 ELSE (Column(a, b, k - 1, 1) + Carry(a, b, k - 1)) \div 256

\* The exact product of two u32, as eight bytes.
Product(a, b) == [k \in 1..8 |-> (Column(a, b, k, 1) + Carry(a, b, k)) % 256]

\* Whether a u32 multiplication overflows, and what it wraps to.
Overflows(a, b) == SubSeq(Product(a, b), 5, 8) # <<0, 0, 0, 0>>
wrapping_mul(a, b) == SubSeq(Product(a, b), 1, 4)

(***************************************************************************)
(* decode_lf_global and decode_lf_group step by step.  A step is the call  *)
(* that reads from the bit reader, with the arguments a claim is about;    *)
(* io names the step whose read fails ("err" is the first step, "ok" and   *)
(* the name of a step that does not run are no failure).                   *)
(***************************************************************************)
\* What a call ran: the steps, in order, and what it returned.
Ran(steps, r) == [steps |-> steps, ret |-> r]

\* The index of the step named io in plan, 0 when it is not there.
FailsAt(plan, io) ==
    IF plan # <<>> /\ io = "err" THEN 1
    ELSE IF \E i \in DOMAIN plan : plan[i][1] = io
    THEN CHOOSE i \in DOMAIN plan : plan[i][1] = io
    ELSE 0

\* The steps of plan up to the first failing one, and Err or Ok.
RunPlan(plan, at) ==
    IF at = 0 THEN Ran(plan, "Ok") ELSE Ran(SubSeq(plan, 1, at), "Err")

\* decode_lf_global, the reads in the order of the code
LfGlobalSteps ==
    << "PatchesDictionary::read", "Splines::read", "Noise::read", "LfQuantFactors::new",
       "QuantizerParams::read", "BlockContextMap::read", "ColorCorrelationParams::read",
       "Tree::read", "FullModularImage::read" >>

\* decode_lf_global, the condition each read is under
lf_global_reads(header, step) ==
    CASE step = "PatchesDictionary::read" -> header.has_patches
      [] step = "Splines::read" -> header.has_splines
      [] step = "Noise::read" -> header.has_noise
      [] step \in {"QuantizerParams::read", "BlockContextMap::read",
                   "ColorCorrelationParams::read"} -> header.encoding = "VarDCT"
      [] OTHER -> TRUE

\* decode_lf_global, the argument the claims are about:
\* Splines::read(br, self.header.width * self.header.height)
lf_global_step(header, step) ==
    IF step = "Splines::read" THEN <<step, wrapping_mul(header.width, header.height)>>
    ELSE <<step>>

\* decode_lf_global, the reads it makes for this header
lf_global_plan(header) ==
    [i \in 1..Len(SelectSeq(LfGlobalSteps, LAMBDA s : lf_global_reads(header, s))) |->
        lf_global_step(header, SelectSeq(LfGlobalSteps, LAMBDA s : lf_global_reads(header, s))[i])]

\* decode_lf_global, the steps of plan it runs: with overflow checks (a debug
\* build) the product of width and height panics when it overflows, unless an
\* earlier read has failed.
lf_global_run(header, plan, at, splines_at, overflow_checks) ==
    IF /\ splines_at # 0
       /\ overflow_checks
       /\ Overflows(header.width, header.height)
       /\ (at = 0 \/ at >= splines_at)
    THEN Ran(SubSeq(plan, 1, splines_at - 1), "panic")
    ELSE RunPlan(plan, at)

\* decode_lf_global, what it ran and returned
lf_global_ran(self, io, overflow_checks) ==
    IF self.lf_global # None THEN Ran(<<>>, "panic")
    ELSE lf_global_run(self.header, lf_global_plan(self.header),
                       FailsAt(lf_global_plan(self.header), io),
                       FailsAt(lf_global_plan(self.header), "Splines::read"),
                       overflow_checks)

\* decode_lf_global that stores what it has read before the reads are through.
lf_global_left_Early(self, r) ==
    Outcome([self EXCEPT !.lf_global = Some([block_context_map |-> None])], r)

\* decode_lf_global, the frame it leaves after a run that returned r
lf_global_left(self, r) ==
    IF r # "Ok" THEN Outcome(self, r)
    ELSE Outcome([self EXCEPT !.lf_global =
                     Some([block_context_map |->
                              IF self.header.encoding = "VarDCT" THEN Some("BlockContextMap") ELSE None])],
                 "Ok")

\* Frame::decode_lf_global, in a build with overflow checks or without
decode_lf_global_build(self, io, overflow_checks) ==
    lf_global_left(self, lf_global_ran(self, io, overflow_checks).ret)

\* Frame::decode_lf_global
decode_lf_global(self, io) == decode_lf_global_build(self, io, FALSE)

\* decode_lf_group, whether the LF coefficients are decoded
lf_group_lf(header) == header.encoding = "VarDCT" /\ ~header.has_lf_frame

\* decode_lf_group that decodes the HF metadata of every VarDCT frame.
lf_group_hf_meta_VarDCT(header) == header.encoding = "VarDCT"

\* decode_lf_group, whether the HF metadata is decoded
lf_group_hf_meta(header) == header.encoding = "VarDCT" /\ ~header.has_lf_frame

\* decode_lf_group, the reads it makes for this header
lf_group_plan(header, group) ==
    (IF lf_group_lf(header) THEN << <<"decode_vardct_lf", group>> >> ELSE <<>>)
    \o << <<"read_stream", <<"ModularLF", group>>, "lf_global.tree">> >>
    \o (IF lf_group_hf_meta(header) THEN << <<"decode_hf_metadata", group>> >> ELSE <<>>)

\* decode_lf_group, what it ran and returned: the unwraps of lf_global, of
\* lf_image and of hf_meta panic on None.
lf_group_ran(self, group, io) ==
    IF self.lf_global = None THEN Ran(<<>>, "panic")
    ELSE IF lf_group_lf(self.header) /\ self.lf_image = None THEN Ran(<<>>, "panic")
    ELSE IF /\ lf_group_hf_meta(self.header)
            /\ self.hf_meta = None
            /\ FailsAt(lf_group_plan(self.header, group), io) \in {0, Len(lf_group_plan(self.header, group))}
    THEN Ran(SubSeq(lf_group_plan(self.header, group), 1,
                    Len(lf_group_plan(self.header, group)) - 1), "panic")
    ELSE RunPlan(lf_group_plan(self.header, group), FailsAt(lf_group_plan(self.header, group), io))

\* Frame::decode_lf_group
decode_lf_group(self, group, io) == Outcome(self, lf_group_ran(self, group, io).ret)

\* Frame::decode_hf_global
decode_hf_global(self, io) ==
    IF self.header.encoding = "Modular" THEN Outcome(self, "Ok")
    ELSE IF self.lf_global = None THEN Outcome(self, "panic")
    ELSE IF self.lf_global[1].block_context_map = None THEN Outcome(self, "panic")
    ELSE IF io = "custom_quant" THEN Outcome(self, "panic")
    ELSE IF io = "err" THEN Outcome(self, "Err")
    ELSE Outcome([self EXCEPT !.hf_global = Some("HfGlobalState")], "Ok")

\* Frame::decode_hf_group
decode_hf_group(self, group, pass, io) ==
    IF self.header.encoding = "VarDCT" THEN Outcome(self, "panic")
    ELSE IF self.lf_global = None THEN Outcome(self, "panic")
    ELSE IF io = "err" THEN Outcome(self, "Err")
    ELSE Outcome(self, "Ok")

\* Frame::finalize, the slot write
store_reference(self) ==
    [self.decoder_state EXCEPT
        !.reference_frames[self.header.save_as_reference + 1] =
            Some(ReferenceFrame_blank(3 + self.decoder_state.extra_channel_info,
                                      self.header.save_before_ct))]

\* What finalize leaves: what it returned, the Option<DecoderState> in it, and
\* the decoder_state of the frame it consumed.
Finalized(r, state, left) == [ret |-> r, state |-> state, decoder_state |-> left]

\* Frame::finalize, the return value
finalize_return(self, left) ==
    Finalized("Ok", IF self.header.is_last THEN None ELSE Some(left), left)

\* finalize that writes the slot whether the frame can be referenced or not.
finalize_AlwaysStore(self, io) ==
    IF io = "err" THEN Finalized("Err", None, self.decoder_state)
    ELSE finalize_return(self, store_reference(self))

\* finalize that hands the DecoderState back after every frame.
finalize_NeverLast(self, io) ==
    IF self.header.can_be_referenced
    THEN IF io = "err" THEN Finalized("Err", None, self.decoder_state)
         ELSE Finalized("Ok", Some(store_reference(self)), store_reference(self))
    ELSE Finalized("Ok", Some(self.decoder_state), self.decoder_state)

\* Frame::finalize
finalize(self, io) ==
    IF self.header.can_be_referenced
    THEN IF io = "err" THEN Finalized("Err", None, self.decoder_state)
         ELSE finalize_return(self, store_reference(self))
    ELSE finalize_return(self, self.decoder_state)

\* FrameHeader, the fields the decode calls and finalize read.
DecodeHeaders ==
    [encoding : {"VarDCT", "Modular"},
     has_lf_frame : BOOLEAN,
     is_last : BOOLEAN,
     can_be_referenced : BOOLEAN,
     save_as_reference : 0..3,
     save_before_ct : BOOLEAN,
     has_patches : {FALSE},
     has_splines : {FALSE},
     has_noise : {FALSE},
     width : {u32(1)},
     height : {u32(1)}]

\* The decode calls a caller can make on a frame.
DecodeCalls ==
    { <<"decode_lf_global">>, <<"decode_lf_group", 0>>, <<"decode_hf_global">>,
      <<"decode_hf_group", 0, 0>> }

\* test::read_frames, before the loop: DecoderState::new(file_header)
InitDecode ==
    /\ decoder_state \in { Some(DecoderState_new(extra)) : extra \in {0, 1} }
    /\ decoding = None
    /\ given = None
    /\ calls = <<>>
    /\ ret = "none"
    /\ finalize_ret = None
    /\ num_frames = 0
    /\ trace = None
    /\ IdleFrame
    /\ IdleToc
    /\ IdleDct
    /\ IdleParser

Aborted == ret \in {"Err", "panic"}

\* The loop starts the next frame: Frame::new(&mut br, decoder_state)
NewFrame ==
    /\ ~Aborted
    /\ decoder_state # None
    /\ num_frames < MaxFrames
    /\ \E header \in DecodeHeaders :
          decoding' = Some(Frame_new(header, decoder_state[1]))
    /\ given' = decoder_state
    /\ decoder_state' = None
    /\ calls' = <<>>
    /\ ret' = "Ok"
    /\ num_frames' = num_frames + 1
    /\ finalize_ret' = None
    /\ UNCHANGED trace
    /\ UNCHANGED <<parser_vars, frame_vars, toc_vars, dct_vars>>

\* The call c on the frame, reading io.
Apply(self, c, io) ==
    CASE c[1] = "decode_lf_global" -> decode_lf_global(self, io)
      [] c[1] = "decode_lf_group" -> decode_lf_group(self, c[2], io)
      [] c[1] = "decode_hf_global" -> decode_hf_global(self, io)
      [] c[1] = "decode_hf_group" -> decode_hf_group(self, c[2], c[3], io)

\* The caller keeps what a decode call left.
Called(c, o) ==
    /\ decoding' = Some(o.self)
    /\ ret' = o.ret
    /\ calls' = IF o.ret = "Ok" THEN Append(calls, c) ELSE calls

\* The caller makes one decode call on the frame.
Decode ==
    /\ ~Aborted
    /\ decoding # None
    /\ Len(calls) < MaxCalls
    /\ \E c \in DecodeCalls, io \in {"ok", "err", "custom_quant"} :
          Called(c, Apply(decoding[1], c, io))
    /\ UNCHANGED <<decoder_state, given, finalize_ret, num_frames, trace>>
    /\ UNCHANGED <<parser_vars, frame_vars, toc_vars, dct_vars>>

\* The caller keeps what finalize left: the loop goes on with Some(state).
Finalizing(header, f) ==
    /\ finalize_ret' = Some([header |-> header, ret |-> f.ret, state |-> f.state,
                             decoder_state |-> f.decoder_state])
    /\ ret' = f.ret
    /\ decoder_state' = f.state

\* The callback of read_frames: frame.finalize()
Finalize ==
    /\ ~Aborted
    /\ decoding # None
    /\ \E io \in {"ok", "err"} : Finalizing(decoding[1].header, finalize(decoding[1], io))
    /\ decoding' = None
    /\ calls' = Append(calls, <<"finalize">>)
    /\ UNCHANGED <<given, num_frames, trace>>
    /\ UNCHANGED <<parser_vars, frame_vars, toc_vars, dct_vars>>

DecodeNext ==
    \/ NewFrame
    \/ Decode
    \/ Finalize

DecodeSpec == InitDecode /\ [][DecodeNext]_vars

\* The phase of a decode call: LfGlobal, LfGroup, HfGlobal, HfGroup.
Phase(c) ==
    CASE c[1] = "decode_lf_global" -> 1
      [] c[1] = "decode_lf_group" -> 2
      [] c[1] = "decode_hf_global" -> 3
      [] c[1] = "decode_hf_group" -> 4
      [] c[1] = "finalize" -> 5

(***************************************************************************)
(* C13: the decode calls that have succeeded on a frame are in phase       *)
(* order: no call succeeds after a call of a later phase, a                *)
(* decode_lf_group succeeds only after decode_lf_global and a              *)
(* decode_hf_group only after decode_hf_global.                            *)
(***************************************************************************)
C13_PhaseOrder ==
    \A j \in 1..Len(calls) :
        /\ \A k \in 1..(j - 1) : Phase(calls[k]) <= Phase(calls[j])
        /\ Phase(calls[j]) = 2 => \E k \in 1..(j - 1) : Phase(calls[k]) = 1
        /\ Phase(calls[j]) = 4 => \E k \in 1..(j - 1) : Phase(calls[k]) = 3

FinalizedOk == finalize_ret # None /\ finalize_ret[1].ret = "Ok"

(***************************************************************************)
(* C14: a successful finalize returns None exactly when the header has     *)
(* is_last; otherwise it returns the DecoderState of the frame, which has  *)
(* the file header of the one passed to Frame::new; the decode loop goes   *)
(* on exactly when it got a DecoderState back.                             *)
(***************************************************************************)
C14_FinalizeReturn ==
    FinalizedOk =>
        /\ finalize_ret[1].state = None <=> finalize_ret[1].header.is_last
        /\ finalize_ret[1].state # None =>
              /\ finalize_ret[1].state[1] = finalize_ret[1].decoder_state
              /\ finalize_ret[1].state[1].extra_channel_info = given[1].extra_channel_info
        /\ decoder_state = None <=> finalize_ret[1].header.is_last
        /\ ENABLED NewFrame => ~finalize_ret[1].header.is_last

\* The loop has finalized a first frame that was not the last and then a last one.
C14_Witness ==
    /\ FinalizedOk
    /\ finalize_ret[1].header.is_last
    /\ num_frames = MaxFrames
    /\ decoder_state = None

\* The reference-frame table, wherever the DecoderState is: in the frame
\* being decoded, in what finalize left, or in the hands of the loop.
RefTable ==
    IF decoding # None THEN decoding[1].decoder_state.reference_frames
    ELSE IF finalize_ret # None THEN finalize_ret[1].decoder_state.reference_frames
    ELSE decoder_state[1].reference_frames

(***************************************************************************)
(* C15: the reference-frame table has 4 slots and changes only in          *)
(* finalize: a successful finalize of a frame with can_be_referenced       *)
(* stores in slot save_as_reference a frame of 3 + extra_channel_info      *)
(* planes with saved_before_color_transform = save_before_ct and leaves    *)
(* the other slots; every other step leaves all four slots.                *)
(***************************************************************************)
C15_ReferenceFrames ==
    [][ /\ DOMAIN RefTable' = 1..4
        /\ IF /\ calls' = Append(calls, <<"finalize">>)
              /\ ret' = "Ok"
              /\ decoding[1].header.can_be_referenced
           THEN /\ decoding[1].header.save_as_reference \in 0..3
                /\ RefTable'[decoding[1].header.save_as_reference + 1] =
                      Some([frame |-> 3 + decoding[1].decoder_state.extra_channel_info,
                            saved_before_color_transform |-> decoding[1].header.save_before_ct])
                /\ \A i \in (1..4) \ {decoding[1].header.save_as_reference + 1} :
                      RefTable'[i] = RefTable[i]
           ELSE RefTable' = RefTable ]_vars

\* Two frames have stored themselves in the slots 0 and 3, the second with an
\* extra channel, and a frame that cannot be referenced has left the table alone.
C15_Witness ==
    /\ FinalizedOk
    /\ num_frames = MaxFrames
    /\ finalize_ret[1].header.can_be_referenced
    /\ finalize_ret[1].header.save_as_reference = 3
    /\ RefTable[1] # None
    /\ RefTable[4] = Some([frame |-> 4, saved_before_color_transform |-> TRUE])

(***************************************************************************)
(* jxl_simd: transpose.  A slice of f32 is a sequence; the element at      *)
(* offset i of the code (from 0) is element i + 1 of the sequence.         *)
(***************************************************************************)
\* _mm_loadu_ps(mem.as_ptr().add(at)), _mm_storeu_ps(mem.as_mut_ptr().add(at), v)
loadu_ps(mem, at) == SubSeq(mem, at + 1, at + 4)
storeu_ps(mem, at, v) ==
    [i \in 1..Len(mem) |-> IF i - 1 \in at..(at + 3) THEN v[i - at] ELSE mem[i]]

\* _mm_unpacklo_ps, _mm_unpackhi_ps
unpacklo_ps(a, b) == <<a[1], b[1], a[2], b[2]>>
unpackhi_ps(a, b) == <<a[3], b[3], a[4], b[4]>>

\* transpose4x4f32, the four stores of r0..r3
store4(output, at, output_stride, r0, r1, r2, r3) ==
    storeu_ps(storeu_ps(storeu_ps(storeu_ps(output, at, r0),
                                  at + output_stride, r1),
                        at + 2 * output_stride, r2),
              at + 3 * output_stride, r3)

\* transpose4x4f32, the second round of unpacks and the stores
unpack2(output, at, output_stride, q0, q1, q2, q3) ==
    store4(output, at, output_stride,
           unpacklo_ps(q0, q1), unpackhi_ps(q0, q1), unpacklo_ps(q2, q3), unpackhi_ps(q2, q3))

\* unpack1 that pairs the rows 0 with 1 and 2 with 3.
unpack1_Adjacent(output, at, output_stride, p0, p1, p2, p3) ==
    unpack2(output, at, output_stride,
            unpacklo_ps(p0, p1), unpacklo_ps(p2, p3), unpackhi_ps(p0, p1), unpackhi_ps(p2, p3))

\* transpose4x4f32, the first round of unpacks
unpack1(output, at, output_stride, p0, p1, p2, p3) ==
    unpack2(output, at, output_stride,
            unpacklo_ps(p0, p2), unpacklo_ps(p1, p3), unpackhi_ps(p0, p2), unpackhi_ps(p1, p3))

\* What a transform leaves: whether it panicked, and the output slice.
Left(panic, out) == [panic |-> panic, out |-> out]

\* Sse42Descriptor::transpose4x4f32, its three assertions on an input slice
\* of in_len floats and an output slice of out_len floats
transpose4x4f32_asserts(in_len, input_stride, out_len, output_stride) ==
    /\ input_stride >= 4
    /\ in_len >= input_stride * 3 + 4
    /\ out_len >= output_stride * 3 + 4

\* Sse42Descriptor::transpose4x4f32 on the slices input[in_at..] and
\* output[out_at..]
transpose4x4f32(input, in_at, input_stride, output, out_at, output_stride) ==
    IF ~transpose4x4f32_asserts(Len(input) - in_at, input_stride,
                                Len(output) - out_at, output_stride)
    THEN Left(TRUE, output)
    ELSE Left(FALSE,
              unpack1(output, out_at, output_stride,
                      loadu_ps(input, in_at),
                      loadu_ps(input, in_at + input_stride),
                      loadu_ps(input, in_at + 2 * input_stride),
                      loadu_ps(input, in_at + 3 * input_stride)))

\* Sse42Descriptor::transpose, the tiles <<r, c>> in the order of the two loops
Tiles(ROWS, COLS) ==
    [k \in 1..((ROWS \div 4) * (COLS \div 4)) |->
        <<4 * ((k - 1) \div (COLS \div 4)), 4 * ((k - 1) % (COLS \div 4))>>]

\* Sse42Descriptor::transpose, the loops over the tiles
RECURSIVE transpose_tiles(_, _, _, _, _)
transpose_tiles(input, left, ROWS, COLS, tiles) ==
    IF tiles = <<>> \/ left.panic THEN left
    ELSE transpose_tiles(input,
                         transpose4x4f32(input, Head(tiles)[1] * COLS + Head(tiles)[2], COLS,
                                         left.out, Head(tiles)[2] * ROWS + Head(tiles)[1], ROWS),
                         ROWS, COLS, Tail(tiles))

\* transpose, its two assertions on the lengths of input and output
transpose_asserts(in_len, out_len, ROWS, COLS) ==
    /\ in_len = ROWS * COLS
    /\ out_len = ROWS * COLS

\* ScalarDescriptor::transpose
scalar_transpose(input, output, ROWS, COLS) ==
    IF ~transpose_asserts(Len(input), Len(output), ROWS, COLS) THEN Left(TRUE, output)
    ELSE Left(FALSE,
              [i \in 1..(ROWS * COLS) |-> input[((i - 1) % ROWS) * COLS + ((i - 1) \div ROWS) + 1]])

\* Sse42Descriptor::transpose
sse42_transpose(input, output, ROWS, COLS) ==
    IF ~transpose_asserts(Len(input), Len(output), ROWS, COLS) THEN Left(TRUE, output)
    ELSE IF ROWS % 4 = 0 /\ COLS % 4 = 0
    THEN transpose_tiles(input, Left(FALSE, output), ROWS, COLS, Tiles(ROWS, COLS))
    ELSE scalar_transpose(input, output, ROWS, COLS)

\* SimdDescriptor::transpose of the descriptor desc
transpose(desc, input, output, ROWS, COLS) ==
    IF desc = "Sse42" THEN sse42_transpose(input, output, ROWS, COLS)
    ELSE scalar_transpose(input, output, ROWS, COLS)

\* A buffer of n floats that nothing has been written to.
Zeroes(n) == [i \in 1..n |-> 0]

(***************************************************************************)
(* jxl_transforms: compute_scaled_dct.  The 1D kernel is kept as a term:   *)
(* coefficient k of the column x is DCT1(k, x), and a product with         *)
(* 1 / n is Scaled(x, n).  What is modelled is where each coefficient is   *)
(* stored, not its arithmetic.                                             *)
(***************************************************************************)
\* DCT1DImpl<1>::do_dct leaves its data alone.
DCT1(k, x) == IF Len(x) = 1 THEN x[1] ELSE [dct |-> k, of |-> x]
Scaled(x, n) == [mul |-> x, inv |-> n]

\* F32SimdVec::LEN of the descriptor desc
LEN(desc) == IF desc = "Sse42" THEN 4 ELSE 1

\* The sizes DCT1DImpl is implemented for.
DctSizes == {1, 2, 4, 8, 16, 32, 64, 128, 256}

\* DCT1DImpl<n>::do_dct, what it asks of the number of rows of data: the
\* assertion of the sizes from 4 on, the rows 0 and 1 that size 2 indexes.
do_dct_asserts(n, rows) ==
    IF n = 1 THEN TRUE
    ELSE IF n = 2 THEN rows >= 2
    ELSE rows = n

\* DCT1DImpl<n>::do_dct on data: [[f32; COLUMNS]], n rows: every column is
\* replaced by its n coefficients.
do_dct(n, COLUMNS, data) ==
    IF ~do_dct_asserts(n, Len(data) \div COLUMNS) THEN Left(TRUE, data)
    ELSE Left(FALSE,
              [i \in 1..Len(data) |->
                  IF i > n * COLUMNS THEN data[i]
                  ELSE DCT1((i - 1) \div COLUMNS,
                            [k \in 1..n |-> data[(k - 1) * COLUMNS + ((i - 1) % COLUMNS) + 1]])])

\* compute_scaled_dct, the normalization of the n floats of buf
normalize(desc, n, buf) ==
    IF n > 64 /\ n >= LEN(desc) /\ n % LEN(desc) # 0 THEN Left(TRUE, buf)
    ELSE Left(FALSE, [i \in 1..Len(buf) |-> IF i <= n THEN Scaled(buf[i], n) ELSE buf[i]])

\* compute_scaled_dct, the in-place normalization of to after the transpose
\* that left it
normalize_in_place(desc, n, left) ==
    IF left.panic THEN left ELSE normalize(desc, n, left.out)

\* compute_scaled_dct that never transposes back.
output_AsIs(desc, ROWS, COLS, buffer, to_buf) ==
    normalize(desc, ROWS * COLS, buffer)

\* compute_scaled_dct, "Normalization and output"
output(desc, ROWS, COLS, buffer, to_buf) ==
    IF Len(to_buf) < ROWS * COLS THEN Left(TRUE, to_buf)
    ELSE IF ROWS >= COLS
    THEN normalize(desc, ROWS * COLS, buffer)
    ELSE normalize_in_place(desc, ROWS * COLS,
                            transpose(desc, buffer, SubSeq(to_buf, 1, ROWS * COLS), COLS, ROWS))

\* compute_scaled_dct, "Transpose" of what the row transforms left
transpose_rows(desc, ROWS, COLS, left) ==
    IF left.panic THEN left
    ELSE transpose(desc, left.out, Zeroes(ROWS * COLS), ROWS, COLS)

\* compute_scaled_dct, "Column transforms" of what the transpose left
column_transforms(ROWS, COLS, left) ==
    IF left.panic THEN left ELSE do_dct(COLS, ROWS, left.out)

\* compute_scaled_dct, "Normalization and output" of what the column
\* transforms left
store_output(desc, ROWS, COLS, left, to_buf) ==
    IF left.panic THEN left ELSE output(desc, ROWS, COLS, left.out, to_buf)

\* compute_scaled_dct<ROWS, COLS>(d, from, to)
compute_scaled_dct(desc, ROWS, COLS, input, to_buf) ==
    store_output(desc, ROWS, COLS,
                 column_transforms(ROWS, COLS,
                                   transpose_rows(desc, ROWS, COLS, do_dct(ROWS, COLS, input))),
                 to_buf)

(***************************************************************************)
(* The transforms as a state machine: a caller picks a descriptor and a    *)
(* matrix and calls transpose, transpose on its result, or                 *)
(* compute_scaled_dct.                                                     *)
(***************************************************************************)
Descriptors == {"Scalar", "Sse42"}

InitDct ==
    /\ simd \in Descriptors
    /\ shape \in (1..MaxDim) \X (1..MaxDim)
    /\ from = [i \in 1..(shape[1] * shape[2]) |-> i - 1]
    /\ lens = [data |-> shape[1] * shape[2], scratch |-> 0]
    /\ to = None
    /\ op = "none"
    /\ IdleParser
    /\ IdleFrame
    /\ IdleToc
    /\ IdleDecode

Rows == shape[1]
Cols == shape[2]

\* d.transpose(from, to, ROWS, COLS)
Transpose ==
    /\ op = "none"
    /\ to' = Some(transpose(simd, from, Zeroes(Rows * Cols), Rows, Cols))
    /\ op' = "transpose"
    /\ UNCHANGED <<simd, shape, from, lens>>
    /\ UNCHANGED <<parser_vars, frame_vars, toc_vars, decode_vars>>

\* d.transpose(to, back, COLS, ROWS) on the output of the first call
TransposeBack ==
    /\ op = "transpose"
    /\ ~to[1].panic
    /\ to' = Some(transpose(simd, to[1].out, Zeroes(Rows * Cols), Cols, Rows))
    /\ op' = "transpose_back"
    /\ UNCHANGED <<simd, shape, from, lens>>
    /\ UNCHANGED <<parser_vars, frame_vars, toc_vars, decode_vars>>

\* compute_scaled_dct::<D, ROWS, COLS>(d, from, &mut to)
ComputeScaledDct ==
    /\ op = "none"
    /\ Rows \in DctSizes
    /\ Cols \in DctSizes
    /\ to' = Some(compute_scaled_dct(simd, Rows, Cols, from, Zeroes(Rows * Cols)))
    /\ op' = "compute_scaled_dct"
    /\ UNCHANGED <<simd, shape, from, lens>>
    /\ UNCHANGED <<parser_vars, frame_vars, toc_vars, decode_vars>>

DctNext ==
    \/ Transpose
    \/ TransposeBack
    \/ ComputeScaledDct

DctSpec == InitDct /\ [][DctNext]_vars

\* Cell (r, c), counted from 0, of a row-major matrix with n columns.
Cell(m, n, r, c) == m[r * n + c + 1]

\* C18: transpose of a ROWS x COLS row-major input does not panic and writes
\* output[c*ROWS + r] = input[r*COLS + c] for all r < ROWS, c < COLS, on the
\* tiled path and on the scalar fallback, and transposing the result as a
\* COLS x ROWS matrix gives back the original array.
C18_Transpose ==
    /\ op = "transpose" =>
        /\ ~to[1].panic
        /\ Len(to[1].out) = Rows * Cols
        /\ \A r \in 0..(Rows - 1), c \in 0..(Cols - 1) :
              Cell(to[1].out, Rows, c, r) = Cell(from, Cols, r, c)
    /\ op = "transpose_back" =>
        /\ ~to[1].panic
        /\ to[1].out = from

\* A matrix of several tiles went through the tiled path and back.
C18_Witness ==
    /\ op = "transpose_back"
    /\ simd = "Sse42"
    /\ shape = <<8, 4>>
    /\ to[1].out = from

\* The 2D DCT coefficient with vertical frequency r and horizontal frequency
\* c of the matrix from, scaled by 1/(ROWS*COLS).
Coefficient(r, c) ==
    Scaled(DCT1(c, [x \in 1..Cols |->
                       DCT1(r, [y \in 1..Rows |-> Cell(from, Cols, y - 1, x - 1)])]),
           Rows * Cols)

\* C19 as stated: for every supported ROWS and COLS, compute_scaled_dct writes
\* the coefficient with vertical frequency r and horizontal frequency c to
\* to[r*COLS + c], whether ROWS < COLS, ROWS = COLS or ROWS > COLS.
C19_RowMajor ==
    op = "compute_scaled_dct" =>
        /\ ~to[1].panic
        /\ \A r \in 0..(Rows - 1), c \in 0..(Cols - 1) :
              Cell(to[1].out, Cols, r, c) = Coefficient(r, c)

\* C19 amended: compute_scaled_dct writes the coefficient with vertical
\* frequency r and horizontal frequency c to to[r*COLS + c] when ROWS < COLS
\* and to to[c*ROWS + r] when ROWS >= COLS.
C19_MaybeTransposed ==
    op = "compute_scaled_dct" =>
        /\ ~to[1].panic
        /\ \A r \in 0..(Rows - 1), c \in 0..(Cols - 1) :
              IF Rows < Cols
              THEN Cell(to[1].out, Cols, r, c) = Coefficient(r, c)
              ELSE Cell(to[1].out, Rows, c, r) = Coefficient(r, c)

\* A tall block and a wide block have both been transformed.
C19_Witness ==
    /\ op = "compute_scaled_dct"
    /\ shape \in {<<8, 4>>, <<4, 8>>}
    /\ ~to[1].panic
    /\ Cell(to[1].out, 8, 1, 2) = IF Rows < Cols THEN Coefficient(1, 2) ELSE Coefficient(2, 1)

(***************************************************************************)
(* jxl_transforms: dct2d and idct2d, as far as slices go.  A slice is its  *)
(* length; every operator below is TRUE when the call completes and FALSE  *)
(* when an index, a split, a conversion to an array or an assertion        *)
(* fails.                                                                  *)
(***************************************************************************)
MAX_SCRATCH_SPACE == 256 * 256 * 3

\* SimdDescriptor::transpose of the descriptor desc, on slices of these lengths
transpose_completes(desc, in_len, out_len, ROWS, COLS) ==
    /\ transpose_asserts(in_len, out_len, ROWS, COLS)
    /\ (desc = "Sse42" /\ ROWS % 4 = 0 /\ COLS % 4 = 0) =>
          \A i \in 0..(ROWS \div 4 - 1), j \in 0..(COLS \div 4 - 1) :
              transpose4x4f32_asserts(in_len - (4 * i * COLS + 4 * j), COLS,
                                      out_len - (4 * j * ROWS + 4 * i), ROWS)

\* F32SimdVec::make_array_slice_mut: the slice as vectors of L floats
make_array_slice_mut(len, L) == len \div L

\* SimdDescriptor::Descriptor128 and Descriptor256 of the descriptor desc
Descriptor128(desc) == desc
Descriptor256(desc) == desc

RECURSIVE do_idct(_, _, _)

\* do_idct that hands the whole scratch array to the first recursive call.
first_half_WholeScratch(n) == do_idct(n \div 2, n, n)

\* IDCT1DImpl<n>::do_idct, the call IDCT1DImpl<nhalf>::do_idct(&mut scratch[..nhalf], data)
first_half(n) == do_idct(n \div 2, n \div 2, n)

\* IDCT1DImpl<n>::do_idct, the call IDCT1DImpl<nhalf>::do_idct(second_half, data)
second_half(n) == do_idct(n \div 2, n - n \div 2, n)

\* IDCT1DImpl<n>::do_idct on data and scratch of these many vectors
do_idct(n, data, scratch) ==
    IF n = 1 THEN TRUE
    ELSE IF n = 2 THEN data >= 2
    ELSE /\ data = n
         /\ scratch >= n
         /\ first_half(n)
         /\ second_half(n)

\* idct_wrapper, run_with_descriptor! with a descriptor of L lanes: data_buf
\* is on the stack up to size 16 and split off the scratch above.
run_with_descriptor(SIZE, L, data, scratch, columns) ==
    \/ columns \div L = 0
    \/ IF SIZE <= 16 THEN do_idct(SIZE, SIZE, make_array_slice_mut(scratch, L))
       ELSE /\ make_array_slice_mut(scratch, L) >= SIZE
            /\ do_idct(SIZE, SIZE, make_array_slice_mut(scratch, L) - SIZE)

\* idct_wrapper, the lanes of the descriptor it runs run_with_descriptor! with
wrapper_lanes(desc, columns) ==
    IF columns < 4 THEN LEN("Scalar")
    ELSE IF columns < 8 THEN LEN(Descriptor128(desc))
    ELSE IF columns < 16 THEN LEN(Descriptor256(desc))
    ELSE LEN(desc)

\* IDCT1DImpl<SIZE>::idct_wrapper(d, data, scratch, columns)
idct_wrapper(SIZE, desc, data, scratch, columns) ==
    IF SIZE = 1 THEN TRUE
    ELSE run_with_descriptor(SIZE, wrapper_lanes(desc, columns), data, scratch, columns)

\* dct2d::<D, ROWS, COLS>(d, data, scratch)
dct2d(desc, ROWS, COLS, data, scratch) ==
    /\ data = ROWS * COLS
    /\ do_dct_asserts(ROWS, data \div COLS)
    /\ scratch >= ROWS * COLS
    /\ transpose_completes(desc, data, ROWS * COLS, ROWS, COLS)
    /\ do_dct_asserts(COLS, (ROWS * COLS) \div ROWS)
    /\ transpose_completes(desc, ROWS * COLS, data, COLS, ROWS)

\* idct2d::<D, ROWS, COLS>(d, data, scratch)
idct2d(desc, ROWS, COLS, data, scratch) ==
    /\ data = ROWS * COLS
    /\ scratch >= ROWS * COLS
    /\ IF ROWS < COLS THEN transpose_completes(desc, data, ROWS * COLS, ROWS, COLS)
       ELSE data = ROWS * COLS
    /\ idct_wrapper(COLS, desc, ROWS * COLS, scratch - ROWS * COLS, ROWS)
    /\ transpose_completes(desc, ROWS * COLS, data, COLS, ROWS)
    /\ idct_wrapper(ROWS, desc, data, scratch - ROWS * COLS, COLS)

(***************************************************************************)
(* The 2D kernels as a state machine: a caller picks a descriptor, a       *)
(* supported shape and a scratch arena, and calls dct2d or idct2d.         *)
(***************************************************************************)
InitDct2d ==
    /\ simd \in Descriptors
    /\ shape \in DctSizes \X DctSizes
    /\ from = <<>>
    /\ \E scratch \in {MAX_SCRATCH_SPACE, 2 * shape[1] * shape[2]} :
          lens = [data |-> shape[1] * shape[2], scratch |-> scratch]
    /\ to = None
    /\ op = "none"
    /\ IdleParser
    /\ IdleFrame
    /\ IdleToc
    /\ IdleDecode

\* dct2d::<D, ROWS, COLS>(d, &mut data, &mut scratch)
Dct2d ==
    /\ op = "none"
    /\ to' = Some(Left(~dct2d(simd, Rows, Cols, lens.data, lens.scratch), <<>>))
    /\ op' = "dct2d"
    /\ UNCHANGED <<simd, shape, from, lens>>
    /\ UNCHANGED <<parser_vars, frame_vars, toc_vars, decode_vars>>

\* idct2d::<D, ROWS, COLS>(d, &mut data, &mut scratch)
Idct2d ==
    /\ op = "none"
    /\ to' = Some(Left(~idct2d(simd, Rows, Cols, lens.data, lens.scratch), <<>>))
    /\ op' = "idct2d"
    /\ UNCHANGED <<simd, shape, from, lens>>
    /\ UNCHANGED <<parser_vars, frame_vars, toc_vars, decode_vars>>

Dct2dNext ==
    \/ Dct2d
    \/ Idct2d

Dct2dSpec == InitDct2d /\ [][Dct2dNext]_vars

\* C20: for every pair ROWS, COLS in {1,2,4,...,256}, dct2d and idct2d called
\* with ROWS*COLS data floats and a scratch arena of MAX_SCRATCH_SPACE floats
\* complete: no index out of bounds, no failed split, no failed assertion.
C20_ScratchSuffices ==
    (op \in {"dct2d", "idct2d"} /\ lens.scratch = MAX_SCRATCH_SPACE) => ~to[1].panic

\* The largest inverse transform, whose row buffer and recursion scratch come
\* out of the arena, has completed.
C20_Witness ==
    /\ op = "idct2d"
    /\ shape = <<256, 256>>
    /\ simd = "Sse42"
    /\ lens = [data |-> 256 * 256, scratch |-> MAX_SCRATCH_SPACE]
    /\ ~to[1].panic

\* C21: for every pair ROWS, COLS in {1,2,4,...,256}, dct2d and idct2d given
\* a scratch slice of exactly 2*ROWS*COLS floats never index or split past its
\* end.
C21_ScratchBudget ==
    (op \in {"dct2d", "idct2d"} /\ lens.scratch = 2 * Rows * Cols) => ~to[1].panic

(***************************************************************************)
(* idct_wrapper, the floats each 1D transform works on.  A float is its    *)
(* offset into data, from 0; a transformed column is the sequence of the   *)
(* offsets that one lane of data_buf is gathered from and scattered to.    *)
(***************************************************************************)
\* data.iter().skip(i).step_by(vecs_per_column), how many vectors it yields
\* out of narrays
stepped(narrays, vecs_per_column, i) ==
    IF narrays <= i THEN 0 ELSE (narrays - i - 1) \div vecs_per_column + 1

\* run_with_descriptor!, lane l of the vectors that pass i zips with data_buf
gathered(SIZE, L, narrays, vecs_per_column, i, l) ==
    [k \in 1..Min(SIZE, stepped(narrays, vecs_per_column, i)) |->
        (i + (k - 1) * vecs_per_column) * L + l]

\* run_with_descriptor!, the lanes of all passes, in order
run_columns(SIZE, L, data, columns) ==
    [p \in 1..((columns \div L) * L) |->
        gathered(SIZE, L, make_array_slice_mut(data, L), columns \div L,
                 (p - 1) \div L, (p - 1) % L)]

\* IDCT1DImpl<SIZE>::idct_wrapper, the columns it transforms
wrapper_columns(SIZE, desc, data, columns) ==
    IF SIZE = 1 THEN <<>> ELSE run_columns(SIZE, wrapper_lanes(desc, columns), data, columns)

\* The sizes idct_wrapper is called with: those that have something to do.
WrapperSizes == {n \in DctSizes : 1 < n /\ n <= 32}

InitWrapper ==
    /\ simd \in Descriptors
    /\ shape \in WrapperSizes \X (1..MaxColumns)
    /\ from = <<>>
    /\ lens = [data |-> shape[1] * shape[2], scratch |-> MAX_SCRATCH_SPACE]
    /\ to = None
    /\ op = "none"
    /\ IdleParser
    /\ IdleFrame
    /\ IdleToc
    /\ IdleDecode

\* IDCT1DImpl::<SIZE>::idct_wrapper(d, &mut data, &mut scratch, columns), on
\* data of SIZE rows of columns floats
IdctWrapper ==
    /\ op = "none"
    /\ to' = Some(Left(~idct_wrapper(Rows, simd, lens.data, lens.scratch, Cols),
                       wrapper_columns(Rows, simd, lens.data, Cols)))
    /\ op' = "idct_wrapper"
    /\ UNCHANGED <<simd, shape, from, lens>>
    /\ UNCHANGED <<parser_vars, frame_vars, toc_vars, decode_vars>>

WrapperNext == IdctWrapper

WrapperSpec == InitWrapper /\ [][WrapperNext]_vars

\* Column j, from 0, of a matrix of n rows of m floats, as offsets.
ColumnOf(n, m, j) == [k \in 1..n |-> (k - 1) * m + j]

\* C22: idct_wrapper selects, for every column count, a lane width that fully
\* divides it, so that the columns / LEN vectors of LEN lanes cover every one of
\* the columns exactly once: none is left untransformed or transformed twice.
C22_ColumnsCovered ==
    op = "idct_wrapper" =>
        /\ ~to[1].panic
        /\ Cols % wrapper_lanes(simd, Cols) = 0
        /\ Len(to[1].out) = Cols
        /\ \A j \in 0..(Cols - 1) :
              Cardinality({p \in 1..Len(to[1].out) : to[1].out[p] = ColumnOf(Rows, Cols, j)}) = 1

(***************************************************************************)
(* decode_lf_global and decode_lf_group as a state machine: a frame fresh  *)
(* from Frame::new, on which a caller makes the two calls in any order,    *)
(* each with a read that fails or none, in a build with overflow checks    *)
(* or without.                                                             *)
(***************************************************************************)
\* The widths and heights of the frame header.
Dims32 == {u32(1), u32(40000), u32(65536)}

LfHeaders ==
    [encoding : {"VarDCT", "Modular"},
     has_lf_frame : BOOLEAN,
     is_last : {TRUE},
     can_be_referenced : {FALSE},
     save_as_reference : {0},
     save_before_ct : {FALSE},
     has_patches : BOOLEAN,
     has_splines : BOOLEAN,
     has_noise : {FALSE},
     width : Dims32,
     height : Dims32]

\* Frame::new(&mut br, DecoderState::new(file_header))
InitLf ==
    /\ given = Some(DecoderState_new(0))
    /\ decoding \in { Some(Frame_new(header, DecoderState_new(0))) : header \in LfHeaders }
    /\ decoder_state = None
    /\ calls = <<>>
    /\ ret = "Ok"
    /\ finalize_ret = None
    /\ num_frames = 1
    /\ trace = None
    /\ IdleFrame
    /\ IdleToc
    /\ IdleDct
    /\ IdleParser

\* What is kept of a call followed step by step.
Traced(c, io, before, ran) == Some([call |-> c, io |-> io, before |-> before, ran |-> ran])

\* frame.decode_lf_global(&mut br)
DecodeLfGlobal ==
    /\ ~Aborted
    /\ decoding # None
    /\ Len(calls) < MaxCalls
    /\ \E k \in DOMAIN LfGlobalSteps, failing \in BOOLEAN, overflow_checks \in BOOLEAN :
          /\ trace' = Traced(<<"decode_lf_global">>, IF failing THEN LfGlobalSteps[k] ELSE "ok",
                             decoding[1],
                             lf_global_ran(decoding[1], IF failing THEN LfGlobalSteps[k] ELSE "ok",
                                           overflow_checks))
          /\ Called(<<"decode_lf_global">>,
                    decode_lf_global_build(decoding[1],
                                           IF failing THEN LfGlobalSteps[k] ELSE "ok",
                                           overflow_checks))
    /\ UNCHANGED <<decoder_state, given, finalize_ret, num_frames>>
    /\ UNCHANGED <<parser_vars, frame_vars, toc_vars, dct_vars>>

\* frame.decode_lf_group(0, &mut br)
DecodeLfGroup ==
    /\ ~Aborted
    /\ decoding # None
    /\ Len(calls) < MaxCalls
    /\ \E io \in {"ok", "decode_vardct_lf", "read_stream", "decode_hf_metadata"} :
          /\ trace' = Traced(<<"decode_lf_group", 0>>, io, decoding[1],
                             lf_group_ran(decoding[1], 0, io))
          /\ Called(<<"decode_lf_group", 0>>, decode_lf_group(decoding[1], 0, io))
    /\ UNCHANGED <<decoder_state, given, finalize_ret, num_frames>>
    /\ UNCHANGED <<parser_vars, frame_vars, toc_vars, dct_vars>>

LfNext ==
    \/ DecodeLfGlobal
    \/ DecodeLfGroup

LfSpec == InitLf /\ [][LfNext]_vars

\* The steps the claim gives decode_lf_group(g) for this header.
ClaimedLfGroupPlan(header, g) ==
    (IF header.encoding = "VarDCT" /\ ~header.has_lf_frame
     THEN << <<"decode_vardct_lf", g>> >> ELSE <<>>)
    \o << <<"read_stream", <<"ModularLF", g>>, "lf_global.tree">> >>
    \o (IF header.encoding = "VarDCT" THEN << <<"decode_hf_metadata", g>> >> ELSE <<>>)

\* A decode_lf_group call has run on a frame whose LfGlobal is decoded.
LfGroupRan ==
    /\ trace # None
    /\ trace[1].call[1] = "decode_lf_group"
    /\ trace[1].before.lf_global # None

\* C23: decode_lf_group(g) decodes the LF coefficients iff the encoding is
\* VarDCT and no LF frame is referenced, reads the ModularLF(g) substream in
\* every case with the global tree, decodes the HF metadata whenever the
\* encoding is VarDCT, in that order, and the first failing step returns its
\* error without running the later ones.
C23_LfGroupSteps ==
    LfGroupRan =>
        trace[1].ran = RunPlan(ClaimedLfGroupPlan(trace[1].before.header, trace[1].call[2]),
                               FailsAt(ClaimedLfGroupPlan(trace[1].before.header, trace[1].call[2]),
                                       trace[1].io))

\* A decode_lf_global call has run on a frame with splines.
SplinesFrame ==
    /\ trace # None
    /\ trace[1].call[1] = "decode_lf_global"
    /\ trace[1].before.lf_global = None
    /\ trace[1].before.header.has_splines

\* C24: when the frame has splines, the limit decode_lf_global passes to the
\* spline decoder is the exact product width*height of the 32-bit header
\* fields: it has not wrapped modulo 2^32 and the product does not abort.
C24_SplinesLimit ==
    SplinesFrame =>
        /\ trace[1].ran.ret # "panic"
        /\ \A i \in DOMAIN trace[1].ran.steps :
              trace[1].ran.steps[i][1] = "Splines::read" =>
                  trace[1].ran.steps[i][2] \o <<0, 0, 0, 0>> =
                      Product(trace[1].before.header.width, trace[1].before.header.height)

\* The decode_lf_global calls that have returned Ok on the frame.
LfGlobalOk == {i \in DOMAIN calls : calls[i] = <<"decode_lf_global">>}

\* C29: lf_global is None from Frame::new until a decode_lf_global call returns
\* Ok; a call that returns an error leaves lf_global None and the rest of the
\* frame untouched; once lf_global is set another decode_lf_global call aborts
\* on its assertion and replaces nothing, so LfGlobal is decoded at most once.
C29_LfGlobalOnce ==
    /\ (decoding[1].lf_global # None) <=> (LfGlobalOk # {})
    /\ Cardinality(LfGlobalOk) <= 1
    /\ trace = None => decoding[1].lf_global = None
    /\ (trace # None /\ trace[1].call[1] = "decode_lf_group") =>
          decoding[1] = trace[1].before
    /\ (trace # None /\ trace[1].call[1] = "decode_lf_global") =>
          /\ trace[1].before.lf_global # None => (ret = "panic" /\ decoding[1] = trace[1].before)
          /\ ret = "Err" => (decoding[1] = trace[1].before /\ decoding[1].lf_global = None)
          /\ ret = "Ok" =>
                /\ trace[1].before.lf_global = None
                /\ decoding[1].lf_global # None
                /\ decoding[1] = [trace[1].before EXCEPT !.lf_global = decoding[1].lf_global]

\* A second decode_lf_global call on a frame whose LfGlobal is decoded has
\* aborted.
C29_Witness ==
    /\ trace # None
    /\ trace[1].call[1] = "decode_lf_global"
    /\ trace[1].before.lf_global # None
    /\ ret = "panic"
    /\ calls = << <<"decode_lf_global">> >>

(***************************************************************************)
(* The container parser, again: what kind() returns over the calls, and    *)
(* the jxlp index check.                                                   *)
(***************************************************************************)
\* C27: kind() is Unknown on a new parser, and once it is BareCodestream,
\* Container or Invalid no feed_bytes, take_bytes or finish call changes what
\* it returns.
C27_KindMonotone ==
    /\ kind(parser) = "Unknown"
    /\ [][kind(parser) # "Unknown" => kind(parser') = kind(parser)]_vars

\* A container whose jxlc box was read to its end and whose next box header is
\* awaited, after take_bytes and finish: kind() has been Container since the
\* signature.
C27_Witness ==
    /\ parser.state = Done("Container")
    /\ parser.jxlp_index_state = SingleJxlc
    /\ taken # <<>>
    /\ late = 1

\* C30: whenever the parser is in WaitingJxlpIndex, jxlp_index_state is
\* Jxlp(n) for some n, and no feed_bytes call reaches the unreachable!() of
\* the jxlp index check.
C30_JxlpIndexState ==
    /\ result # "unreachable"
    /\ parser.state.tag = "WaitingJxlpIndex" => parser.jxlp_index_state.tag = "Jxlp"

\* The index check has failed on an out-of-order index, which leaves the
\* parser in WaitingJxlpIndex, and feed_bytes was called again and ran the
\* index check once more.
C30_Witness ==
    /\ parser.state.tag = "WaitingJxlpIndex"
    /\ parser.jxlp_index_state.tag = "Jxlp"
    /\ errored
    /\ late = 1

\* a is b with some of its elements left out.
RECURSIVE IsSubsequence(_, _)
IsSubsequence(a, b) ==
    IF a = <<>> THEN TRUE
    ELSE IF b = <<>> THEN FALSE
    ELSE IF Head(a) = Head(b) THEN IsSubsequence(Tail(a), Tail(b))
    ELSE IsSubsequence(a, Tail(b))

\* C28: while the stream has not been ended, the codestream extracted from an
\* input that kind() classifies BareCodestream or Invalid is the whole input
\* fed so far, signature bytes included, every feed_bytes call having
\* returned Ok and nothing being held back in the buffer; the codestream
\* extracted from a container holds only bytes that follow the 12-byte
\* container signature.
C28_Verbatim ==
    /\ kind(parser) \in {"BareCodestream", "Invalid"} =>
          /\ ~errored
          /\ Extracted = SubSeq(Fed, 1, Len(Extracted))
          /\ parser.state.tag # "Done" =>
                (Extracted = Fed /\ result = "Ok" /\ parser.buf = <<>>)
    /\ kind(parser) = "Container" =>
          IsSubsequence(Extracted, SubSeq(Fed, Len(CONTAINER_SIG) + 1, pos))

\* The bare codestream FF 0A 11 22 was fed whole, its first byte alone, and
\* drained in between.
C28_Witness ==
    /\ kind(parser) = "BareCodestream"
    /\ parser.state.tag # "Done"
    /\ pos = 4
    /\ taken = <<255, 10>>
    /\ parser.codestream = <<17, 34>>

(***************************************************************************)
(* Auxiliary boxes, read off the stream.                                   *)
(***************************************************************************)
IsSizedAux(box) == ~IsJxlc(box) /\ ~IsJxlp(box) /\ box.form # "eof"
NotSizedAux(box) == ~IsSizedAux(box)

\* The offset in the stream at which box i ends.
BoxEnd(boxes, i) == Len(CONTAINER_SIG) + Len(EncodeBoxes(SubSeq(boxes, 1, i)))

\* The auxiliary boxes with a declared size among the first k boxes whose last
\* byte is among the first n bytes of the stream, in stream order.
RECURSIVE AuxUpTo(_, _, _)
AuxUpTo(boxes, k, n) ==
    IF k = 0 THEN <<>>
    ELSE AuxUpTo(boxes, k - 1, n)
         \o (IF IsSizedAux(boxes[k]) /\ BoxEnd(boxes, k) <= n
             THEN << <<boxes[k].type, boxes[k].body>> >>
             ELSE <<>>)

\* No codestream box of the list is one the parser rejects.
Acceptable(boxes) == OneCarrier(boxes) /\ JxlpInOrder(boxes) /\ FinalIsLast(boxes)

\* The stream without its auxiliary boxes of declared size, fed in one call.
WithoutAux == feed_bytes(ContainerParser_new,
                         Doc(CONTAINER_SIG, SelectSeq(doc.boxes, NotSizedAux)).bytes).self

\* C25: in a container whose codestream boxes are acceptable, before, between
\* or after them, an auxiliary box with a declared size is in the auxiliary
\* box list, with its type and exactly its payload, from the call that
\* consumes its last byte on, once and in stream order; no call fails; none
\* of its bytes enter the codestream; and jxlp_index_state and the codestream
\* are what the stream gives without such boxes.
C25_AuxBoxes ==
    (doc.head = CONTAINER_SIG /\ Acceptable(doc.boxes) /\ parser.state.tag # "Done"
       /\ \E i \in 1..Len(doc.boxes) : IsSizedAux(doc.boxes[i])) =>
        /\ ~errored
        /\ parser.aux_boxes = AuxUpTo(doc.boxes, Len(doc.boxes), pos)
        /\ Extracted = SubSeq(CodestreamOf(doc.boxes), 1, Len(Extracted))
        /\ AllFed =>
              /\ parser.jxlp_index_state = WithoutAux.jxlp_index_state
              /\ Extracted = WithoutAux.codestream

\* What buf may hold of the parser self between two calls: nothing inside a
\* payload; else the bytes of the signature, box header or jxlp index that
\* is not yet whole, fewer than 16.
OnlyAwaited(self) ==
    CASE self.state.tag \in {"InCodestream", "InAuxBox"} -> self.buf = <<>>
      [] self.state.tag = "WaitingSignature" ->
            ProperPrefix(self.buf, CODESTREAM_SIG) \/ ProperPrefix(self.buf, CONTAINER_SIG)
      [] self.state.tag = "WaitingBoxHeader" ->
            Len(self.buf) < 16 /\ parse_bytes(self.buf).tag = "NeedMoreData"
      [] self.state.tag = "WaitingJxlpIndex" -> Len(self.buf) < 4
      [] self.state.tag = "Done" -> Len(self.buf) < 16

\* C26: after every feed_bytes call that returns Ok, in every state, buf is
\* empty when the parser is inside a codestream or auxiliary box payload and
\* otherwise holds only the signature, box header or jxlp index that is not
\* yet whole, fewer than 16 bytes, the last bytes fed; it does not grow with
\* the input.
C26_BufferRetention ==
    result = "Ok" =>
        /\ OnlyAwaited(parser)
        /\ Len(parser.buf) <= pos
        /\ parser.buf = SubSeq(Fed, pos - Len(parser.buf) + 1, pos)

====
